---- MODULE Spec2Model ----
(***************************************************************************)
(* Model of the transaction engine of the entail crate                     *)
(* (entail/src/ds/transaction.rs) and of the DatastoreShell operations it  *)
(* uses (entail/src/ds/shell.rs).                                          *)
(*                                                                         *)
(* Every variable is a function over the run() invocations that exist in   *)
(* the behaviour (DOMAIN pc): one invocation under Spec, where the         *)
(* transport may answer every call with any outcome and the closure is     *)
(* arbitrary, two concurrent invocations under SpecConc, where the         *)
(* transport is a store with optimistic concurrency control and the        *)
(* closures are those of tests/ds_test.rs::create_conflict.                *)
(***************************************************************************)
EXTENDS Integers, Sequences, FiniteSets, TLC

\* ------------------------------------------------------------------ bounds
\* largest retry_count given to with_retry_count
MaxRetryCount == 3
\* largest first_retry (in microseconds) given to first_retry
MaxFirstRetry == 2
\* largest number of shell operations one closure invocation performs
MaxOps == 2
\* keys in one lookup request; stands for the 1000 of get_all
LookupLimit == 2
\* keys given to get_all
MaxKeys == 4
\* lookups of one get_all that the model follows
MaxLookups == 3
\* setter calls on one entity
MaxSets == 2
\* segments of a key's path
MaxKeyDepth == 3
\* filters given to Filter::and
MaxFilters == 3
\* mutations added to one batch
MaxMutations == 3

\* ------------------------------------------------------------- data model
\* Option<T>: None is the empty tuple, Some(x) the one-element tuple
None == <<>>
Some(x) == <<x>>

\* the status strings a failed transport call can carry; "UNRECOGNIZED" is a
\* status string the engine has no case for, "NO_STATUS" a
\* google_datastore1::Error without error.status (or not a BadRequest)
Statuses ==
  {"ABORTED", "DEADLINE_EXCEEDED", "UNAVAILABLE", "INTERNAL",
   "RESOURCE_EXHAUSTED", "UNRECOGNIZED", "NO_STATUS"}

\* a google_datastore1::Error, tagged with the transport call that raised it
TransportError(call, status) == [call |-> call, status |-> status]

\* EntailError { message, ds_error }
EntailError(message, ds_error) == [message |-> message, ds_error |-> ds_error]
NoError == EntailError("", None)

\* shell.rs: EntailError { kind, message, ds_error: Some(error) }
simple_error(kind, s, error) ==
  [kind |-> kind, message |-> s, ds_error |-> Some(error)]

\* Result<T, EntailError>; tag "None" stands for "no result yet"
Ok(v) == [tag |-> "Ok", val |-> v, err |-> NoError]
Err(e) == [tag |-> "Err", val |-> "", err |-> e]
NoResult == [tag |-> "None", val |-> "", err |-> NoError]

\* ---------------------------------------------------------------- state
VARIABLES
  transport,      \* "unreliable": any outcome; "occ": the store below
  cfg,            \* the Transaction: retry_count, first_retry
  pc,             \* position of run(): loop, body, returned, classify, sleep, done
  retries_left, last_error, last_txn, current_delay,
  this_txn,       \* the TransactionShell of the attempt: ds.transaction, active
  result,         \* what the closure returned in this attempt
  next_delay, val,\* the delay computed for the pending sleep
  ret,            \* what run() returned
  ops, seen,      \* closure: operations performed, last error it observed
  begins, calls,  \* history: begin_transaction calls, closure invocations
  sent,           \* history: commit/rollback requests carrying this attempt's token
  returned_active,\* history: this_txn.active when the closure returned
  auto_rb,        \* history: outcome of the engine's rollback in this attempt
  retryable,      \* history: attempts the engine classified Normal/Backoff/Once
  first_internal, \* history: number of the attempt first classified Once
  store_val, store_ver, read_ver, \* the store: value and version of the test key
  hint,           \* history: the previous-transaction hint of the last begin_transaction
  unresolved,     \* history: the token of the latest attempt, until a commit or
                  \* a rollback that carries it succeeds
  ts_op,          \* history: the commit or rollback this step made through the shell
  shell, sh_call, \* a DatastoreShell and the operation last called on it
  sh_requests,    \* the transport requests that operation sent
  sh_result,      \* what that operation returned
  ga,             \* get_all in progress: native_keys, rest, result, ...
  entity, set_call, \* an Entity's properties and the setter last called on it
  entity_key,     \* that Entity's key
  pure            \* a pure function that was applied: its input and its output

vars ==
  <<transport, cfg, pc, retries_left, last_error, last_txn, current_delay,
    this_txn, result, next_delay, val, ret, ops, seen, begins, calls, sent,
    returned_active, auto_rb, retryable, first_internal,
    store_val, store_ver, read_ver, hint, unresolved, ts_op,
    shell, sh_call, sh_requests, sh_result, ga, entity, set_call,
    entity_key, pure>>

\* the variables of the shell operations and of the entity setters
shellVars == <<shell, sh_call, sh_requests, sh_result, ga>>
entityVars == <<entity, set_call, entity_key>>
pureVars == <<pure>>

\* the variables of run(), of the transport and of the store
runVars ==
  <<transport, cfg, pc, retries_left, last_error, last_txn, current_delay,
    this_txn, result, next_delay, val, ret, ops, seen, begins, calls, sent,
    returned_active, auto_rb, retryable, first_internal,
    store_val, store_ver, read_ver, hint, unresolved, ts_op>>

\* the variables run() does not touch
nonRunVars == <<shellVars, entityVars, pureVars>>

Runs == DOMAIN pc

\* ------------------------------------------------------- Transaction config
Transaction_new == [retry_count |-> 16, first_retry |-> 25000]
with_retry_count(t, n) == [t EXCEPT !.retry_count = n]
first_retry(t, d) == [t EXCEPT !.first_retry = d]

\* ------------------------------------------------------------ RetryRule
\* based_on_error without the "ABORTED" case
based_on_error_without_aborted(error) ==
  CASE error.status \in {"DEADLINE_EXCEEDED", "UNAVAILABLE"} -> "Backoff"
    [] error.status = "INTERNAL" -> "Once"
    [] OTHER -> "Never"

\* based_on_error whose catch-all case retries
based_on_error_retry_unknown(error) ==
  CASE error.status = "ABORTED" -> "Normal"
    [] error.status \in {"DEADLINE_EXCEEDED", "UNAVAILABLE"} -> "Backoff"
    [] error.status = "INTERNAL" -> "Once"
    [] error.status = "RESOURCE_EXHAUSTED" -> "Never"
    [] OTHER -> "Backoff"

\* based_on_error that finds no status in the error object
based_on_error_all_never(error) == "Never"

based_on_error(error) ==
  CASE error.status = "ABORTED" -> "Normal"
    [] error.status \in {"DEADLINE_EXCEEDED", "UNAVAILABLE"} -> "Backoff"
    [] error.status = "INTERNAL" -> "Once"
    [] error.status = "RESOURCE_EXHAUSTED" -> "Never"
    [] OTHER -> "Never"

\* run(), lines 298-302: the rule for the closure's error
RetryRuleOf(err) ==
  IF err.ds_error # None THEN based_on_error(err.ds_error[1]) ELSE "Never"

\* ------------------------------------------------------- DatastoreShell
\* Each operation is a function of the shell, its arguments and the
\* transport's answer (resp); it yields the operation's result and the
\* request it sent (None when it returned without a transport call).
DatastoreShell(transaction) ==
  [project_id |-> "test-project", database_id |-> None, transaction |-> transaction]

\* the shell of DatastoreShell::new, on which run() begins its transactions
BaseShell == DatastoreShell(None)

\* build_read_options that asks for STRONG consistency in a transaction too
build_read_options_always_strong(sh) ==
  [read_consistency |-> Some("STRONG"), transaction |-> sh.transaction]

\* build_read_options
build_read_options(sh) ==
  [read_consistency |-> IF sh.transaction = None THEN Some("STRONG") ELSE None,
   transaction |-> sh.transaction]

\* begin_transaction that builds the new shell from DatastoreShell's defaults
shell_begin_transaction_default_project(sh, previous, resp, fresh) ==
  [result |-> IF resp = "Ok"
                THEN Ok(DatastoreShell(Some(fresh)))
                ELSE Err(simple_error("RequestFailure", "Begin transaction error",
                                      TransportError("begin_transaction", resp))),
   request |-> Some([call |-> "begin_transaction", project_id |-> sh.project_id,
                     database_id |-> sh.database_id, previous |-> previous])]

shell_begin_transaction(sh, previous, resp, fresh) ==
  [result |-> IF resp = "Ok"
                THEN Ok([sh EXCEPT !.transaction = Some(fresh)])
                ELSE Err(simple_error("RequestFailure", "Begin transaction error",
                                      TransportError("begin_transaction", resp))),
   request |-> Some([call |-> "begin_transaction", project_id |-> sh.project_id,
                     database_id |-> sh.database_id, previous |-> previous])]

\* commit's mode that ignores the shell's transaction
commit_mode_non_transactional(sh) == "NON_TRANSACTIONAL"

\* commit, lines 282-288: the request's mode
commit_mode(sh) ==
  IF sh.transaction # None THEN "TRANSACTIONAL" ELSE "NON_TRANSACTIONAL"

\* commit that sends the empty batch too
shell_commit_sends_empty(sh, batch_empty, resp) ==
  [result |-> IF resp = "Ok"
                THEN Ok("committed")
                ELSE Err(simple_error("RequestFailure", "Commit error",
                                      TransportError("commit", resp))),
   request |-> Some([call |-> "commit", project_id |-> sh.project_id,
                     database_id |-> sh.database_id, mode |-> commit_mode(sh),
                     transaction |-> sh.transaction])]

shell_commit(sh, batch_empty, resp) ==
  IF batch_empty
    THEN [result |-> Ok("empty"), request |-> None]
    ELSE [result |-> IF resp = "Ok"
                       THEN Ok("committed")
                       ELSE Err(simple_error("RequestFailure", "Commit error",
                                             TransportError("commit", resp))),
          request |-> Some([call |-> "commit", project_id |-> sh.project_id,
                            database_id |-> sh.database_id, mode |-> commit_mode(sh),
                            transaction |-> sh.transaction])]

shell_rollback(sh, transaction, resp) ==
  LET tok == IF transaction # None THEN transaction ELSE sh.transaction IN
  IF tok = None
    THEN [result |-> Ok("unit"), request |-> None]
    ELSE [result |-> IF resp = "Ok"
                       THEN Ok("unit")
                       ELSE Err(simple_error("RequestFailure", "Rollback error",
                                             TransportError("rollback", resp))),
          request |-> Some([call |-> "rollback", project_id |-> sh.project_id,
                            database_id |-> sh.database_id, transaction |-> tok])]

\* get_single and get_all: the LookupRequest for these keys
lookup_request(sh, keys) ==
  [call |-> "lookup", project_id |-> sh.project_id,
   database_id |-> sh.database_id, read_options |-> build_read_options(sh),
   keys |-> keys]

\* the transport answers a lookup of one key with "Ok" (found), "Missing"
\* (an Ok response whose found list is empty) or an error status
shell_get_single(sh, resp) ==
  [result |-> CASE resp = "Ok" -> Ok(Some("entity"))
                [] resp = "Missing" -> Ok(None)
                [] OTHER -> Err(simple_error("RequestFailure", "Lookup error",
                                             TransportError("lookup", resp))),
   request |-> Some(lookup_request(sh, <<1>>))]

shell_run_query(sh, resp) ==
  [result |-> IF resp = "Ok"
                THEN Ok("batch")
                ELSE Err(simple_error("RequestFailure", "Query error",
                                      TransportError("run_query", resp))),
   request |-> Some([call |-> "run_query", project_id |-> sh.project_id,
                     database_id |-> sh.database_id,
                     read_options |-> build_read_options(sh)])]

shell_allocate_ids(sh, keys_empty, resp) ==
  IF keys_empty
    THEN [result |-> Ok("no_keys"), request |-> None]
    ELSE [result |-> IF resp = "Ok"
                       THEN Ok("keys")
                       ELSE Err(simple_error("RequestFailure", "Allocate IDs error",
                                             TransportError("allocate_ids", resp))),
          request |-> Some([call |-> "allocate_ids", project_id |-> sh.project_id,
                            database_id |-> sh.database_id])]

shell_reserve_ids(sh, keys_empty, resp) ==
  IF keys_empty
    THEN [result |-> Ok("unit"), request |-> None]
    ELSE [result |-> IF resp = "Ok"
                       THEN Ok("unit")
                       ELSE Err(simple_error("RequestFailure", "Reserve IDs error",
                                             TransportError("reserve_ids", resp))),
          request |-> Some([call |-> "reserve_ids", project_id |-> sh.project_id,
                            database_id |-> sh.database_id])]

\* ------------------------------------------------------ TransactionShell
TransactionShell_from(ds) == [ds |-> ds, active |-> ds.transaction # None]

\* commit and rollback that clear active whatever the result
ActiveAfter_always_clear(ts, res) == FALSE

\* TransactionShell::commit and ::rollback: the shell after the call
ActiveAfter(ts, res) == IF res.tag = "Ok" THEN FALSE ELSE ts.active

ts_commit(ts, batch_empty, resp) ==
  LET r == shell_commit(ts.ds, batch_empty, resp) IN
  [ts |-> [ts EXCEPT !.active = ActiveAfter(ts, r.result)],
   result |-> r.result, request |-> r.request]

ts_rollback(ts, resp) ==
  LET r == shell_rollback(ts.ds, None, resp) IN
  [ts |-> [ts EXCEPT !.active = ActiveAfter(ts, r.result)],
   result |-> r.result, request |-> r.request]

\* the requests of one attempt that close its transaction at the transport
Closing(request, ts) ==
  IF request # None /\ request[1].call \in {"commit", "rollback"}
       /\ request[1].transaction = ts.ds.transaction
    THEN {request[1].call} ELSE {}

\* history: what a commit or rollback made through the TransactionShell did
TsOp(call, res) == <<call, res.tag>>

\* the transport keeps a transaction open until a commit or a rollback that
\* carries its token succeeds
StillOpen(open, request, res) ==
  IF request # None /\ request[1].call \in {"commit", "rollback"} /\ res.tag = "Ok"
    THEN open \ {request[1].transaction} ELSE open

\* ------------------------------------------------------------ transport
\* the answers the transport can give to a call of run p
Responses(p) == IF transport = "unreliable" THEN {"Ok"} \cup Statuses ELSE {"Ok"}

\* ------------------------------------------------------------------ Init
\* no get_all in progress
NoGetAll ==
  [pc |-> "idle", input |-> <<>>, native_keys |-> <<>>, rest |-> <<>>,
   result |-> <<>>, ret |-> NoResult, lookups |-> 0, answered |-> {},
   found |-> {}]

\* no operation of the shell
NoCall == [op |-> "none", args |-> <<>>, resp |-> "none"]

\* no shell operation was called
NoShellCall ==
  /\ shell = DatastoreShell(None)
  /\ sh_call = NoCall
  /\ sh_requests = {}
  /\ sh_result = NoResult
  /\ ga = NoGetAll

\* no entity setter was called
NoSetCall ==
  /\ entity = <<>>
  /\ set_call = [op |-> "none", count |-> 0]
  /\ entity_key = [kind |-> "A", variant |-> <<"Incomplete", <<>>>>, parent |-> None]

\* no pure function was applied
NoPure == [fn |-> "none"]

NoShell == TransactionShell_from(DatastoreShell(None))

InitRun(R) ==
  /\ pc = [p \in R |-> "loop"]
  /\ cfg \in [R -> {first_retry(with_retry_count(Transaction_new, n), d) :
                      n \in 0..MaxRetryCount, d \in 0..MaxFirstRetry}]
  /\ retries_left = [p \in R |-> cfg[p].retry_count]
  /\ last_error = [p \in R |-> None]
  /\ last_txn = [p \in R |-> None]
  /\ current_delay = [p \in R |-> cfg[p].first_retry]
  /\ this_txn = [p \in R |-> NoShell]
  /\ result = [p \in R |-> NoResult]
  /\ next_delay = [p \in R |-> 0]
  /\ val = [p \in R |-> 0]
  /\ ret = [p \in R |-> NoResult]
  /\ ops = [p \in R |-> 0]
  /\ seen = [p \in R |-> NoError]
  /\ begins = [p \in R |-> 0]
  /\ calls = [p \in R |-> 0]
  /\ sent = [p \in R |-> {}]
  /\ returned_active = [p \in R |-> FALSE]
  /\ auto_rb = [p \in R |-> "none"]
  /\ retryable = [p \in R |-> 0]
  /\ first_internal = [p \in R |-> 0]
  /\ hint = [p \in R |-> None]
  /\ unresolved = [p \in R |-> {}]
  /\ ts_op = [p \in R |-> None]

\* one run() invocation
OneRun == {1}

Init ==
  /\ transport = "unreliable"
  /\ InitRun(OneRun)
  /\ store_val = "none" /\ store_ver = 0 /\ read_ver = [p \in OneRun |-> 0]
  /\ NoShellCall /\ NoSetCall /\ pure = NoPure

\* ------------------------------------------------------- run(): the loop
\* run() that finds the budget used up only below zero
BudgetUsedUp_below_zero(n) == n < 0

\* line 272: if retries_left == 0
BudgetUsedUp(n) == n = 0

\* lines 272-277: the budget is used up
Exhausted(p) ==
  /\ pc[p] = "loop" /\ BudgetUsedUp(retries_left[p])
  /\ ret' = [ret EXCEPT ![p] = Err(EntailError("Retries exhausted", last_error[p]))]
  /\ pc' = [pc EXCEPT ![p] = "done"]
  /\ UNCHANGED <<transport, cfg, retries_left, last_error, last_txn,
                 current_delay, this_txn, result, next_delay, val, ops, seen,
                 begins, calls, sent, returned_active, auto_rb, retryable,
                 first_internal, store_val, store_ver, read_ver>>
  /\ ts_op' = [ts_op EXCEPT ![p] = None]
  /\ UNCHANGED <<hint, unresolved>>
  /\ UNCHANGED nonRunVars

\* the loop without retries_left -= 1
Decrement_skip(n) == n

\* line 278
Decrement(n) == n - 1

\* run() that never records the attempt's token
NextLastTxn_keep(last, new_shell) == last

\* line 280: last_txn = this_txn.ds.transaction.clone()
NextLastTxn(last, new_shell) == new_shell.transaction

\* lines 278-281: one more attempt: begin_transaction, then the closure starts
Begin(p) ==
  /\ pc[p] = "loop" /\ ~BudgetUsedUp(retries_left[p])
  /\ retries_left' = [retries_left EXCEPT ![p] = Decrement(retries_left[p])]
  /\ begins' = [begins EXCEPT ![p] = @ + 1]
  /\ \E resp \in Responses(p) :
       LET r == shell_begin_transaction(BaseShell, last_txn[p], resp,
                                        <<p, begins[p] + 1>>) IN
       /\ hint' = [hint EXCEPT ![p] = r.request[1].previous]
       /\ IF r.result.tag = "Ok"
         THEN /\ this_txn' = [this_txn EXCEPT ![p] = TransactionShell_from(r.result.val)]
              /\ last_txn' = [last_txn EXCEPT ![p] = NextLastTxn(@, r.result.val)]
              /\ calls' = [calls EXCEPT ![p] = @ + 1]
              /\ pc' = [pc EXCEPT ![p] = "body"]
              /\ unresolved' = [unresolved EXCEPT ![p] = {r.result.val.transaction}]
              /\ ret' = ret
         ELSE /\ ret' = [ret EXCEPT ![p] = r.result]
              /\ pc' = [pc EXCEPT ![p] = "done"]
              /\ this_txn' = [this_txn EXCEPT ![p] = NoShell]
              /\ UNCHANGED <<last_txn, calls, unresolved>>
  /\ result' = [result EXCEPT ![p] = NoResult]
  /\ ops' = [ops EXCEPT ![p] = 0]
  /\ seen' = [seen EXCEPT ![p] = NoError]
  /\ sent' = [sent EXCEPT ![p] = {}]
  /\ returned_active' = [returned_active EXCEPT ![p] = FALSE]
  /\ auto_rb' = [auto_rb EXCEPT ![p] = "none"]
  /\ UNCHANGED <<transport, cfg, last_error, current_delay, next_delay, val,
                 retryable, first_internal, store_val, store_ver, read_ver>>
  /\ ts_op' = [ts_op EXCEPT ![p] = None]
  /\ UNCHANGED nonRunVars

\* ------------------------------------------------ the closure (arbitrary)
\* a read through the Deref of the TransactionShell (get_single, run_query)
ClosureRead(p) ==
  /\ pc[p] = "body" /\ ops[p] < MaxOps
  /\ \E resp \in Responses(p) :
       LET r == shell_get_single(this_txn[p].ds, resp) IN
       seen' = [seen EXCEPT ![p] = IF r.result.tag = "Err" THEN r.result.err ELSE @]
  /\ ops' = [ops EXCEPT ![p] = @ + 1]
  /\ UNCHANGED <<transport, cfg, pc, retries_left, last_error, last_txn,
                 current_delay, this_txn, result, next_delay, val, ret, begins,
                 calls, sent, returned_active, auto_rb, retryable,
                 first_internal, store_val, store_ver, read_ver>>
  /\ ts_op' = [ts_op EXCEPT ![p] = None]
  /\ UNCHANGED <<hint, unresolved>>
  /\ UNCHANGED nonRunVars

\* TransactionShell::commit of an empty or a non-empty batch
ClosureCommit(p) ==
  /\ pc[p] = "body" /\ ops[p] < MaxOps
  /\ \E batch_empty \in BOOLEAN, resp \in Responses(p) :
       LET r == ts_commit(this_txn[p], batch_empty, resp) IN
       /\ this_txn' = [this_txn EXCEPT ![p] = r.ts]
       /\ seen' = [seen EXCEPT ![p] = IF r.result.tag = "Err" THEN r.result.err ELSE @]
       /\ sent' = [sent EXCEPT ![p] = @ \cup Closing(r.request, this_txn[p])]
       /\ ts_op' = [ts_op EXCEPT ![p] = TsOp("commit", r.result)]
       /\ unresolved' = [unresolved EXCEPT ![p] = StillOpen(@, r.request, r.result)]
  /\ ops' = [ops EXCEPT ![p] = @ + 1]
  /\ UNCHANGED <<transport, cfg, pc, retries_left, last_error, last_txn,
                 current_delay, result, next_delay, val, ret, begins, calls,
                 returned_active, auto_rb, retryable, first_internal,
                 store_val, store_ver, read_ver>>
  /\ UNCHANGED hint
  /\ UNCHANGED nonRunVars

\* TransactionShell::rollback
ClosureRollback(p) ==
  /\ pc[p] = "body" /\ ops[p] < MaxOps
  /\ \E resp \in Responses(p) :
       LET r == ts_rollback(this_txn[p], resp) IN
       /\ this_txn' = [this_txn EXCEPT ![p] = r.ts]
       /\ seen' = [seen EXCEPT ![p] = IF r.result.tag = "Err" THEN r.result.err ELSE @]
       /\ sent' = [sent EXCEPT ![p] = @ \cup Closing(r.request, this_txn[p])]
       /\ ts_op' = [ts_op EXCEPT ![p] = TsOp("rollback", r.result)]
       /\ unresolved' = [unresolved EXCEPT ![p] = StillOpen(@, r.request, r.result)]
  /\ ops' = [ops EXCEPT ![p] = @ + 1]
  /\ UNCHANGED <<transport, cfg, pc, retries_left, last_error, last_txn,
                 current_delay, result, next_delay, val, ret, begins, calls,
                 returned_active, auto_rb, retryable, first_internal,
                 store_val, store_ver, read_ver>>
  /\ UNCHANGED hint
  /\ UNCHANGED nonRunVars

\* what an arbitrary closure can return: a value, the error an operation
\* gave it (the ? operator), or an error of its own without a transport error
ClosureResults(p) ==
  {Ok("value"), Err(EntailError("closure error", None))}
    \cup (IF seen[p] # NoError THEN {Err(seen[p])} ELSE {})

\* line 281: body(&mut this_txn).await resolves
ClosureReturn(p) ==
  /\ pc[p] = "body"
  /\ \E r \in ClosureResults(p) : result' = [result EXCEPT ![p] = r]
  /\ returned_active' = [returned_active EXCEPT ![p] = this_txn[p].active]
  /\ pc' = [pc EXCEPT ![p] = "returned"]
  /\ ops' = [ops EXCEPT ![p] = 0]
  /\ seen' = [seen EXCEPT ![p] = NoError]
  /\ UNCHANGED <<transport, cfg, retries_left, last_error, last_txn,
                 current_delay, this_txn, next_delay, val, ret,
                 begins, calls, sent, auto_rb, retryable, first_internal,
                 store_val, store_ver, read_ver>>
  /\ ts_op' = [ts_op EXCEPT ![p] = None]
  /\ UNCHANGED <<hint, unresolved>>
  /\ UNCHANGED nonRunVars

\* ------------------------------------------- run(): after the closure
\* run() without the automatic rollback
NeedsRollback_never(ts) == FALSE

\* lines 284 and 290: does the engine roll the attempt back itself
NeedsRollback(ts) == ts.active

\* run() returning the rollback's error
AutorollbackError_rollback(err, rollback_err) == rollback_err

\* lines 292-295: EntailError { message: "Autorollback error", ..err }
AutorollbackError(err, rollback_err) ==
  [err EXCEPT !.message = "Autorollback error"]

\* run() that returns the closure's value after a failed rollback too
ReturnAfterRollback_value(value, res) == Ok(value)

\* lines 284-287: this_txn.rollback().await?; return Ok(result)
ReturnAfterRollback(value, res) == IF res.tag = "Err" THEN res ELSE Ok(value)

\* lines 283-288: the closure returned Ok
ReturnOk(p) ==
  /\ pc[p] = "returned" /\ result[p].tag = "Ok"
  /\ IF NeedsRollback(this_txn[p])
       THEN \E resp \in Responses(p) :
              LET r == ts_rollback(this_txn[p], resp) IN
              /\ this_txn' = [this_txn EXCEPT ![p] = r.ts]
              /\ sent' = [sent EXCEPT ![p] = @ \cup Closing(r.request, this_txn[p])]
              /\ ts_op' = [ts_op EXCEPT ![p] = TsOp("rollback", r.result)]
              /\ unresolved' = [unresolved EXCEPT ![p] = StillOpen(@, r.request, r.result)]
              /\ auto_rb' = [auto_rb EXCEPT ![p] = IF r.request = None THEN @ ELSE resp]
              /\ ret' = [ret EXCEPT ![p] =
                                ReturnAfterRollback(result[p].val, r.result)]
       ELSE /\ ret' = [ret EXCEPT ![p] = Ok(result[p].val)]
            /\ ts_op' = [ts_op EXCEPT ![p] = None]
            /\ UNCHANGED <<this_txn, sent, auto_rb, unresolved>>
  /\ pc' = [pc EXCEPT ![p] = "done"]
  /\ UNCHANGED <<transport, cfg, retries_left, last_error, last_txn,
                 current_delay, result, next_delay, val, ops, seen, begins,
                 calls, returned_active, retryable, first_internal,
                 store_val, store_ver, read_ver>>
  /\ UNCHANGED hint
  /\ UNCHANGED nonRunVars

\* run() that classifies the closure's error after a failed rollback too
AfterAutorollback_classify(res) == "classify"

\* lines 291-297: where run() goes after the automatic rollback of a failed
\* attempt: it returns when the rollback failed
AfterAutorollback(res) == IF res.tag = "Err" THEN "done" ELSE "classify"

\* lines 289-297: the closure returned Err: automatic rollback
ErrRollback(p) ==
  /\ pc[p] = "returned" /\ result[p].tag = "Err"
  /\ IF NeedsRollback(this_txn[p])
       THEN \E resp \in Responses(p) :
              LET r == ts_rollback(this_txn[p], resp) IN
              /\ this_txn' = [this_txn EXCEPT ![p] = r.ts]
              /\ sent' = [sent EXCEPT ![p] = @ \cup Closing(r.request, this_txn[p])]
              /\ ts_op' = [ts_op EXCEPT ![p] = TsOp("rollback", r.result)]
              /\ unresolved' = [unresolved EXCEPT ![p] = StillOpen(@, r.request, r.result)]
              /\ auto_rb' = [auto_rb EXCEPT ![p] = IF r.request = None THEN @ ELSE resp]
              /\ pc' = [pc EXCEPT ![p] = AfterAutorollback(r.result)]
              /\ ret' = IF r.result.tag = "Err"
                          THEN [ret EXCEPT ![p] =
                                  Err(AutorollbackError(result[p].err, r.result.err))]
                          ELSE ret
       ELSE /\ pc' = [pc EXCEPT ![p] = "classify"]
            /\ ts_op' = [ts_op EXCEPT ![p] = None]
            /\ UNCHANGED <<this_txn, sent, auto_rb, ret, unresolved>>
  /\ UNCHANGED <<transport, cfg, retries_left, last_error, last_txn,
                 current_delay, result, next_delay, val, ops, seen, begins,
                 calls, returned_active, retryable, first_internal,
                 store_val, store_ver, read_ver>>
  /\ UNCHANGED hint
  /\ UNCHANGED nonRunVars

\* next_delay that never grows
NextDelay_no_growth(backoff, delay) == delay

\* next_delay that doubles for Normal too
NextDelay_always_doubles(backoff, delay) == delay * 2

\* lines 306-310: Duration::checked_mul(2) cannot overflow within the bounds
NextDelay(backoff, delay) == IF backoff THEN delay * 2 ELSE delay

\* min without the shift
MinDelay_no_shift(backoff, delay) == delay

\* lines 311-312: current_delay.as_micros() >> if backoff { 0 } else { 1 }
MinDelay(backoff, delay) == IF backoff THEN delay ELSE delay \div 2

\* val drawn from min to max, max included
SleepValues_inclusive(min, max) == min..max

\* lines 314-318: rng.next_u64() % (max - min) + min, or max
SleepValues(min, max) == IF max > min THEN min..(max - 1) ELSE {max}

\* Once without the clamp
ClampOnce_keep(n) == n

\* Once forcing one more attempt whatever the budget
ClampOnce_force(n) == 1

\* lines 323-325
ClampOnce(n) == IF n > 0 THEN 1 ELSE n

\* lines 298-330 up to the sleep: classify the closure's error
Classify(p) ==
  /\ pc[p] = "classify"
  /\ LET err == result[p].err
         retry == RetryRuleOf(err)
         backoff == retry = "Backoff" IN
     CASE retry \in {"Backoff", "Normal"} ->
            /\ next_delay' = [next_delay EXCEPT ![p] = NextDelay(backoff, current_delay[p])]
            /\ \E v \in SleepValues(MinDelay(backoff, current_delay[p]),
                                    NextDelay(backoff, current_delay[p])) :
                 val' = [val EXCEPT ![p] = v]
            /\ pc' = [pc EXCEPT ![p] = "sleep"]
            /\ retryable' = [retryable EXCEPT ![p] = @ + 1]
            /\ UNCHANGED <<retries_left, last_error, ret, first_internal>>
       [] retry = "Once" ->
            /\ retries_left' = [retries_left EXCEPT ![p] = ClampOnce(@)]
            /\ last_error' = [last_error EXCEPT ![p] = err.ds_error]
            /\ pc' = [pc EXCEPT ![p] = "loop"]
            /\ retryable' = [retryable EXCEPT ![p] = @ + 1]
            /\ first_internal' = [first_internal EXCEPT ![p] = IF @ = 0 THEN begins[p] ELSE @]
            /\ UNCHANGED <<next_delay, val, ret>>
       [] retry = "Never" ->
            /\ ret' = [ret EXCEPT ![p] = Err(err)]
            /\ pc' = [pc EXCEPT ![p] = "done"]
            /\ UNCHANGED <<retries_left, last_error, next_delay, val, retryable,
                           first_internal>>
  /\ UNCHANGED <<transport, cfg, last_txn, current_delay, this_txn, result, ops,
                 seen, begins, calls, sent, returned_active, auto_rb,
                 store_val, store_ver, read_ver>>
  /\ ts_op' = [ts_op EXCEPT ![p] = None]
  /\ UNCHANGED <<hint, unresolved>>
  /\ UNCHANGED nonRunVars

\* run() that takes the jitter it slept as the delay to grow from
Sleep_keeps_jitter(p) ==
  /\ pc[p] = "sleep"
  /\ current_delay' = [current_delay EXCEPT ![p] = val[p]]
  /\ last_error' = [last_error EXCEPT ![p] = result[p].err.ds_error]
  /\ pc' = [pc EXCEPT ![p] = "loop"]
  /\ next_delay' = [next_delay EXCEPT ![p] = 0]
  /\ val' = [val EXCEPT ![p] = 0]
  /\ UNCHANGED <<transport, cfg, retries_left, last_txn, this_txn, result,
                 ret, ops, seen, begins, calls, sent,
                 returned_active, auto_rb, retryable, first_internal,
                 store_val, store_ver, read_ver>>
  /\ ts_op' = [ts_op EXCEPT ![p] = None]
  /\ UNCHANGED <<hint, unresolved>>
  /\ UNCHANGED nonRunVars

\* lines 319-320 and 331: the sleep is over; next_delay and val go out of scope
Sleep(p) ==
  /\ pc[p] = "sleep"
  /\ current_delay' = [current_delay EXCEPT ![p] = next_delay[p]]
  /\ last_error' = [last_error EXCEPT ![p] = result[p].err.ds_error]
  /\ pc' = [pc EXCEPT ![p] = "loop"]
  /\ next_delay' = [next_delay EXCEPT ![p] = 0]
  /\ val' = [val EXCEPT ![p] = 0]
  /\ UNCHANGED <<transport, cfg, retries_left, last_txn, this_txn, result,
                 ret, ops, seen, begins, calls, sent,
                 returned_active, auto_rb, retryable, first_internal,
                 store_val, store_ver, read_ver>>
  /\ ts_op' = [ts_op EXCEPT ![p] = None]
  /\ UNCHANGED <<hint, unresolved>>
  /\ UNCHANGED nonRunVars

\* ------------------------------------------------------- specification
Step(p) ==
  \/ Exhausted(p)
  \/ Begin(p)
  \/ ClosureRead(p)
  \/ ClosureCommit(p)
  \/ ClosureRollback(p)
  \/ ClosureReturn(p)
  \/ ReturnOk(p)
  \/ ErrRollback(p)
  \/ Classify(p)
  \/ Sleep(p)

Next == \E p \in OneRun : Step(p)

Spec == Init /\ [][Next]_vars

\* ------------------------------------- two concurrent runs over one store
\* tests/ds_test.rs::create_conflict: two run() invocations, joined, whose
\* closures read one key and then upsert it, each with its own value.  The
\* store detects conflicts at commit time: a transactional commit succeeds
\* when the key was not written since the transaction read it, and fails
\* with ABORTED otherwise; its other calls succeed.
ConcRuns == {1, 2}

\* lines 41-45: the value stored before the two runs start
InitialValue == "cluff"

\* lines 55-59 and 73-77: the value each closure upserts
WriterValue(p) == IF p = 1 THEN "wibz" ELSE "vrob"

\* the store's answer to the commit of run p's transaction
StoreCommit(p) == IF read_ver[p] = store_ver THEN "Ok" ELSE "ABORTED"

InitConc ==
  /\ transport = "occ"
  /\ InitRun(ConcRuns)
  /\ \A p \in ConcRuns : cfg[p].retry_count >= 1
  /\ store_val = InitialValue /\ store_ver = 0
  /\ read_ver = [p \in ConcRuns |-> 0]
  /\ NoShellCall /\ NoSetCall /\ pure = NoPure

\* lines 53 and 71: ts.get_single(key).await?
TestRead(p) ==
  /\ pc[p] = "body" /\ ops[p] = 0
  /\ shell_get_single(this_txn[p].ds, "Ok").result.tag = "Ok"
  /\ read_ver' = [read_ver EXCEPT ![p] = store_ver]
  /\ ops' = [ops EXCEPT ![p] = 1]
  /\ UNCHANGED <<transport, cfg, pc, retries_left, last_error, last_txn,
                 current_delay, this_txn, result, next_delay, val, ret, seen,
                 begins, calls, sent, returned_active, auto_rb, retryable,
                 first_internal, store_val, store_ver>>
  /\ ts_op' = [ts_op EXCEPT ![p] = None]
  /\ UNCHANGED <<hint, unresolved>>
  /\ UNCHANGED nonRunVars

\* lines 55-62 and 73-80: ts.commit(upsert).await?; Ok(tries)
TestCommit(p) ==
  /\ pc[p] = "body" /\ ops[p] = 1
  /\ LET r == ts_commit(this_txn[p], FALSE, StoreCommit(p)) IN
     /\ this_txn' = [this_txn EXCEPT ![p] = r.ts]
     /\ sent' = [sent EXCEPT ![p] = @ \cup Closing(r.request, this_txn[p])]
     /\ ts_op' = [ts_op EXCEPT ![p] = TsOp("commit", r.result)]
     /\ unresolved' = [unresolved EXCEPT ![p] = StillOpen(@, r.request, r.result)]
     /\ returned_active' = [returned_active EXCEPT ![p] = r.ts.active]
     /\ IF r.result.tag = "Ok"
          THEN /\ store_val' = WriterValue(p)
               /\ store_ver' = store_ver + 1
               /\ result' = [result EXCEPT ![p] = Ok(calls[p])]
          ELSE /\ result' = [result EXCEPT ![p] = r.result]
               /\ UNCHANGED <<store_val, store_ver>>
  /\ ops' = [ops EXCEPT ![p] = 0]
  /\ seen' = seen
  /\ pc' = [pc EXCEPT ![p] = "returned"]
  /\ UNCHANGED <<transport, cfg, retries_left, last_error, last_txn,
                 current_delay, next_delay, val, ret, begins, calls, auto_rb,
                 retryable, first_internal, read_ver>>
  /\ UNCHANGED hint
  /\ UNCHANGED nonRunVars

StepConc(p) ==
  \/ Exhausted(p)
  \/ Begin(p)
  \/ TestRead(p)
  \/ TestCommit(p)
  \/ ReturnOk(p)
  \/ ErrRollback(p)
  \/ Classify(p)
  \/ Sleep(p)

NextConc == \E p \in ConcRuns : StepConc(p)

SpecConc == InitConc /\ [][NextConc]_vars

\* tokio::join! polls both futures until both are complete, and every
\* transport call and sleep resolves: each run keeps taking steps
FairSpecConc == SpecConc /\ \A p \in ConcRuns : WF_vars(StepConc(p))

\* ------------------------------------------ two runs with the same inputs
\* Two executions of run() on equal Transactions, with the longest first
\* delay and so the widest range of jitter, that are given the same
\* closure results and the same transport responses, each drawing its own
\* jitter.  Run 1 takes a step; run 2 then takes the step that the same
\* closure result or transport response allows.
JitterRuns == {1, 2}

\* the two executions are given the same responses: the token of the n-th
\* BeginTransactionResponse is the same token in both
SameToken(token) == IF token = None THEN None ELSE Some(<<0, token[1][2]>>)

\* everything run() holds and everything observed of it, but the sampled val
AllButVal(p) ==
  <<cfg[p], pc[p], retries_left[p], last_error[p], SameToken(last_txn[p]),
    current_delay[p],
    [this_txn[p] EXCEPT !.ds.transaction = SameToken(@)],
    result[p], next_delay[p], ret[p], ops[p],
    seen[p], begins[p], calls[p], sent[p], returned_active[p], auto_rb[p],
    retryable[p], first_internal[p], read_ver[p], SameToken(hint[p]),
    {SameToken(token) : token \in unresolved[p]}, ts_op[p]>>

InitJitter ==
  /\ transport = "unreliable"
  /\ InitRun(JitterRuns)
  /\ cfg[1] = cfg[2] /\ cfg[1].first_retry = MaxFirstRetry
  /\ store_val = "none" /\ store_ver = 0
  /\ read_ver = [p \in JitterRuns |-> 0]
  /\ NoShellCall /\ NoSetCall /\ pure = NoPure

\* a step of run() whose closure commits or not and returns
StepJitter(p) ==
  \/ Exhausted(p)
  \/ Begin(p)
  \/ ClosureCommit(p)
  \/ ClosureReturn(p)
  \/ ReturnOk(p)
  \/ ErrRollback(p)
  \/ Classify(p)
  \/ Sleep(p)

\* the first execution takes its next step
Lead == AllButVal(1) = AllButVal(2) /\ StepJitter(1)

\* the second execution takes the same step on the same input
Follow ==
  /\ AllButVal(1) # AllButVal(2)
  /\ StepJitter(2)
  /\ AllButVal(2)' = AllButVal(1)'

NextJitter == Lead \/ Follow

SpecJitter == InitJitter /\ [][NextJitter]_vars

\* ------------------------------------------------- get_all and the adapter
\* the elements of keys whose answer is what, in keys' order
RECURSIVE Pick(_, _, _)
Pick(keys, answer, what) ==
  IF keys = <<>> THEN <<>>
  ELSE (IF answer[1] = what THEN <<keys[1]>> ELSE <<>>)
         \o Pick(Tail(keys), Tail(answer), what)

\* the elements of a sequence
Elems(seq) == {seq[i] : i \in 1..Len(seq)}

\* get_all that asks for all the keys at once
SplitOff_keeps_all(native_keys) == [native_keys |-> native_keys, rest |-> <<>>]

\* get_all, lines 184-188: the first request's keys and the rest
SplitOff(native_keys) ==
  IF Len(native_keys) > LookupLimit
    THEN [native_keys |-> SubSeq(native_keys, 1, LookupLimit),
          rest |-> SubSeq(native_keys, LookupLimit + 1, Len(native_keys))]
    ELSE [native_keys |-> native_keys, rest |-> <<>>]

\* get_all, lines 191-195: fill the request from the end of the rest
Refill(native_keys, rest) ==
  IF rest # <<>> /\ Len(native_keys) < LookupLimit
    THEN LET space == LookupLimit - Len(native_keys)
             start == IF Len(rest) > space THEN Len(rest) - space ELSE 0
         IN [native_keys |-> native_keys \o SubSeq(rest, start + 1, Len(rest)),
             rest |-> SubSeq(rest, 1, start)]
    ELSE [native_keys |-> native_keys, rest |-> rest]

\* get_all that never finds its work done
GetAllDone_never(deferred, rest) == FALSE

\* get_all that returns as soon as the rest is used up
GetAllDone_ignores_deferred(deferred, rest) == rest = <<>>

\* get_all, line 216: nothing is left to ask for
GetAllDone(deferred, rest) == deferred = <<>> /\ rest = <<>>

\* EntailError::simple(kind, message)
EntailError_simple(kind, message) ==
  [kind |-> kind, message |-> message, ds_error |-> None]

\* EntityModel::from_ds_entity of the model type T
from_ds_entity(e, converts) ==
  IF converts THEN Ok("model") ELSE Err(EntailError("from_ds_entity error", None))

\* fetch_single that passes absence on
fetch_single_absent_ok(sh, resp, converts) ==
  LET r == shell_get_single(sh, resp) IN
  [result |-> IF r.result.tag = "Ok" /\ r.result.val # None
                THEN from_ds_entity(r.result.val[1], converts)
                ELSE r.result,
   request |-> r.request]

\* adapter fetch_single: transpose, unwrap_or_else, and_then
fetch_single(sh, resp, converts) ==
  LET r == shell_get_single(sh, resp) IN
  [result |-> CASE r.result.tag = "Err" -> r.result
                [] r.result.val = None ->
                     Err(EntailError_simple("RequiredEntityNotFound",
                                            "Required key not found"))
                [] OTHER -> from_ds_entity(r.result.val[1], converts),
   request |-> r.request]

\* adapter fetch_all, after get_all returned: the map from key to model
fetch_all(got, converts) ==
  CASE got.tag = "Err" -> got
    [] got.val # <<>> /\ ~converts -> from_ds_entity(got.val[1], converts)
    [] OTHER -> Ok([k \in Elems(got.val) |-> from_ds_entity(k, TRUE).val])

\* --------------------------------------------- the shell's operations
Projects == {"test-project", "other-project"}
Databases == {None, Some("db")}

\* the shells of DatastoreShell::new and those returned by begin_transaction
Shells ==
  {[project_id |-> pr, database_id |-> db, transaction |-> t] :
     pr \in Projects, db \in Databases, t \in {None, Some(<<0, 1>>)}}

\* the tokens the transport hands out to begin_transaction
FreshTokens == {<<0, 2>>, <<0, 3>>}

InitShell ==
  /\ transport = "unreliable"
  /\ InitRun({})
  /\ store_val = "none" /\ store_ver = 0 /\ read_ver = <<>>
  /\ shell \in Shells
  /\ sh_call = NoCall
  /\ sh_requests = {}
  /\ sh_result = NoResult
  /\ ga = NoGetAll
  /\ NoSetCall /\ pure = NoPure

\* one operation is called on the shell and returns r
Called(op, args, resp, r) ==
  /\ sh_call = NoCall
  /\ sh_call' = [op |-> op, args |-> args,
                 resp |-> IF r.request = None THEN "none" ELSE resp]
  /\ sh_requests' = IF r.request = None THEN {} ELSE {r.request[1]}
  /\ sh_result' = r.result
  /\ ga' = NoGetAll
  /\ UNCHANGED <<shell, runVars, entityVars, pureVars>>

GetSingle ==
  \E resp \in Responses(0) \cup {"Missing"} :
    Called("get_single", <<>>, resp, shell_get_single(shell, resp))

FetchSingle ==
  \E resp \in Responses(0) \cup {"Missing"}, converts \in BOOLEAN :
    Called("fetch_single", <<>>, resp, fetch_single(shell, resp, converts))

RunQuery ==
  \E resp \in Responses(0) :
    Called("run_query", <<>>, resp, shell_run_query(shell, resp))

Commit ==
  \E batch_empty \in BOOLEAN, resp \in Responses(0) :
    Called("commit", <<batch_empty>>, resp, shell_commit(shell, batch_empty, resp))

BeginTransaction ==
  \E previous \in {None, Some(<<0, 1>>)}, resp \in Responses(0),
     fresh \in FreshTokens :
    Called("begin_transaction", <<previous>>, resp,
           shell_begin_transaction(shell, previous, resp, fresh))

Rollback ==
  \E transaction \in {None, Some(<<0, 1>>)}, resp \in Responses(0) :
    Called("rollback", <<transaction>>, resp,
           shell_rollback(shell, transaction, resp))

AllocateIds ==
  \E keys_empty \in BOOLEAN, resp \in Responses(0) :
    Called("allocate_ids", <<keys_empty>>, resp,
           shell_allocate_ids(shell, keys_empty, resp))

ReserveIds ==
  \E keys_empty \in BOOLEAN, resp \in Responses(0) :
    Called("reserve_ids", <<keys_empty>>, resp,
           shell_reserve_ids(shell, keys_empty, resp))

\* fetch_all calls get_all; get_all, lines 180-189
FetchAllStart ==
  /\ sh_call = NoCall
  /\ \E n \in 0..MaxKeys :
       LET keys == [i \in 1..n |-> i]
           first == SplitOff(keys)
       IN /\ sh_call' = [op |-> "fetch_all", args |-> <<keys>>, resp |-> "none"]
          /\ IF keys = <<>>
               THEN /\ ga' = [NoGetAll EXCEPT !.pc = "done", !.ret = Ok(<<>>)]
                    /\ sh_result' = fetch_all(Ok(<<>>), TRUE)
               ELSE /\ ga' = [NoGetAll EXCEPT !.pc = "loop", !.input = keys,
                                              !.native_keys = first.native_keys,
                                              !.rest = first.rest]
                    /\ sh_result' = NoResult
  /\ sh_requests' = {}
  /\ UNCHANGED <<shell, runVars, entityVars, pureVars>>

\* get_all, lines 190-226: one turn of the loop. The transport answers every
\* key of the request with found, missing or deferred, or fails the request.
\* With progress the transport leaves at least one key of each request not
\* deferred, and the turns are followed for as long as one per key; without
\* it, for MaxLookups turns.
GetAllTurn(progress) ==
  /\ ga.pc = "loop"
  /\ ga.lookups < (IF progress THEN Len(ga.input) + 1 ELSE MaxLookups)
  /\ LET filled == Refill(ga.native_keys, ga.rest) IN
     /\ sh_requests' = sh_requests \cup {lookup_request(shell, filled.native_keys)}
     /\ \E resp \in Responses(0) :
          IF resp = "Ok"
            THEN \E answer \in
                      {a \in [1..Len(filled.native_keys) ->
                                {"found", "missing", "deferred"}] :
                         progress => \E i \in DOMAIN a : a[i] # "deferred"} :
                   LET deferred == Pick(filled.native_keys, answer, "deferred")
                       found == Pick(filled.native_keys, answer, "found")
                       next == [ga EXCEPT !.lookups = @ + 1,
                                          !.result = @ \o found,
                                          !.native_keys = deferred,
                                          !.rest = filled.rest,
                                          !.answered = @ \cup (Elems(filled.native_keys)
                                                                 \ Elems(deferred)),
                                          !.found = @ \cup Elems(found)]
                   IN IF GetAllDone(deferred, filled.rest)
                        THEN /\ ga' = [next EXCEPT !.pc = "done",
                                                   !.ret = Ok(next.result)]
                             /\ \E converts \in BOOLEAN :
                                  sh_result' = fetch_all(Ok(next.result), converts)
                        ELSE /\ ga' = next
                             /\ sh_result' = NoResult
            ELSE LET failed == Err(simple_error("RequestFailure", "Lookup error",
                                                TransportError("lookup", resp)))
                 IN /\ ga' = [ga EXCEPT !.pc = "done", !.lookups = @ + 1,
                                        !.ret = failed]
                    /\ sh_result' = fetch_all(failed, TRUE)
  /\ UNCHANGED <<shell, sh_call, runVars, entityVars, pureVars>>

\* a turn of get_all with any answer of the transport
GetAllLookup == GetAllTurn(FALSE)

\* a turn of get_all with a transport that does not defer a whole request
GetAllLookupProgress == GetAllTurn(TRUE)

NextShell ==
  \/ GetSingle \/ FetchSingle \/ RunQuery \/ Commit \/ BeginTransaction
  \/ Rollback \/ AllocateIds \/ ReserveIds \/ FetchAllStart \/ GetAllLookup

SpecShell == InitShell /\ [][NextShell]_vars

\* get_all alone, with a transport that does not defer a whole request: the
\* loop of get_all keeps running
NextGetAll == FetchAllStart \/ GetAllLookupProgress

FairSpecGetAll ==
  InitShell /\ [][NextGetAll]_vars /\ WF_vars(GetAllLookupProgress)

\* ---------------------------------------------------------------- Key
\* a variant is its name and its payload
KeyVariant_Incomplete == <<"Incomplete", <<>>>>
KeyVariant_Name(name) == <<"Name", name>>
KeyVariant_Id(id) == <<"Id", id>>

Key_new(kind) ==
  [kind |-> kind, variant |-> KeyVariant_Incomplete, parent |-> None]

with_name(key, name) == [key EXCEPT !.variant = KeyVariant_Name(name)]

with_id(key, id) == [key EXCEPT !.variant = KeyVariant_Id(id)]

with_parent(key, parent) == [key EXCEPT !.parent = Some(parent)]

with_boxed_parent(key, parent) == [key EXCEPT !.parent = parent]

\* the PathElement pushed for one key
PathElement(key) ==
  CASE key.variant[1] = "Id" ->
         [kind |-> Some(key.kind), id |-> Some(key.variant[2]), name |-> None]
    [] key.variant[1] = "Name" ->
         [kind |-> Some(key.kind), id |-> None, name |-> Some(key.variant[2])]
    [] OTHER -> [kind |-> Some(key.kind), id |-> None, name |-> None]

\* push_path_elements that pushes the key before its parent
RECURSIVE push_path_elements_leaf_first(_)
push_path_elements_leaf_first(key) ==
  <<PathElement(key)>>
    \o (IF key.parent # None THEN push_path_elements_leaf_first(key.parent[1])
        ELSE <<>>)

\* push_path_elements and consume_and_push_path_elements
RECURSIVE push_path_elements(_)
push_path_elements(key) ==
  (IF key.parent # None THEN push_path_elements(key.parent[1]) ELSE <<>>)
    \o <<PathElement(key)>>

\* Key::to_api and Into<google_datastore1::api::Key>
Key_to_api(key) == [partition_id |-> None, path |-> Some(push_path_elements(key))]

\* what a conversion to a Value yields when it panics
Panic == <<"Panic", <<>>>>

\* what a conversion to a Key yields when it panics
Key_panic == [kind |-> "", variant |-> Panic, parent |-> None]

\* From<google_datastore1::api::Key>: the loop over the path's elements
RECURSIVE key_from_path(_, _)
key_from_path(path, key_opt) ==
  IF path = <<>> THEN key_opt
  ELSE LET element == path[1]
           new == Key_new(element.kind[1])
           varied == IF element.id # None THEN with_id(new, element.id[1])
                     ELSE IF element.name # None THEN with_name(new, element.name[1])
                     ELSE new
           key == IF key_opt # None THEN with_boxed_parent(varied, Some(key_opt[1]))
                  ELSE varied
       IN key_from_path(Tail(path), Some(key))

\* From<google_datastore1::api::Key>, with its three expect() calls
Key_from_api(value) ==
  IF \/ value.path = None
     \/ value.path[1] = <<>>
     \/ \E i \in 1..Len(value.path[1]) : value.path[1][i].kind = None
    THEN Key_panic
    ELSE key_from_path(value.path[1], None)[1]

\* the keys whose path has d segments
RECURSIVE KeysOfDepth(_)
KeysOfDepth(d) ==
  IF d = 1
    THEN {[kind |-> kind, variant |-> variant, parent |-> None] :
            kind \in {"A", "B"},
            variant \in {KeyVariant_Incomplete, KeyVariant_Name("n"),
                         KeyVariant_Id(1)}}
    ELSE {with_parent(key, parent) :
            key \in KeysOfDepth(1), parent \in KeysOfDepth(d - 1)}

Keys == UNION {KeysOfDepth(d) : d \in 1..MaxKeyDepth}

\* ------------------------------------------------------------- Entity
\* a Value is its variant's name and the variant's payload
Value_null == <<"Null", <<>>>>
Value_integer(i) == <<"Integer", i>>
Value_boolean(b) == <<"Boolean", b>>
Value_blob(bytes) == <<"Blob", bytes>>
Value_unicode_string(str) == <<"UnicodeString", str>>
Value_floating_point(f) == <<"FloatingPoint", f>>
Value_array(values) == <<"Array", values>>
Value_key(key) == <<"Key", key>>

\* google_datastore1::api::Value::default()
ApiValue_default ==
  [null_value |-> None, integer_value |-> None, boolean_value |-> None,
   blob_value |-> None, string_value |-> None, double_value |-> None,
   array_value |-> None, key_value |-> None, entity_value |-> None,
   geo_point_value |-> None, timestamp_value |-> None,
   exclude_from_indexes |-> None, meaning |-> None]

\* Into<google_datastore1::api::Value>
RECURSIVE Value_into_api(_)
Value_into_api(value) ==
  CASE value[1] = "Null" -> [ApiValue_default EXCEPT !.null_value = Some("NULL_VALUE")]
    [] value[1] = "Integer" ->
         [ApiValue_default EXCEPT !.integer_value = Some(value[2])]
    [] value[1] = "Boolean" ->
         [ApiValue_default EXCEPT !.boolean_value = Some(value[2])]
    [] value[1] = "Blob" -> [ApiValue_default EXCEPT !.blob_value = Some(value[2])]
    [] value[1] = "UnicodeString" ->
         [ApiValue_default EXCEPT !.string_value = Some(value[2])]
    [] value[1] = "FloatingPoint" ->
         [ApiValue_default EXCEPT !.double_value = Some(value[2])]
    [] value[1] = "Key" ->
         [ApiValue_default EXCEPT !.key_value = Some(Key_to_api(value[2]))]
    [] value[1] = "Array" ->
         [ApiValue_default EXCEPT !.array_value =
            Some([values |-> Some([i \in 1..Len(value[2]) |->
                                     Value_into_api(value[2][i])])])]

\* From<google_datastore1::api::Value> that reads an unsupported value as Null
RECURSIVE Value_from_api_unsupported_is_null(_)
Value_from_api_unsupported_is_null(value) ==
  IF value.integer_value # None THEN Value_integer(value.integer_value[1])
  ELSE IF value.boolean_value # None THEN Value_boolean(value.boolean_value[1])
  ELSE IF value.blob_value # None THEN Value_blob(value.blob_value[1])
  ELSE IF value.string_value # None THEN Value_unicode_string(value.string_value[1])
  ELSE IF value.double_value # None THEN Value_floating_point(value.double_value[1])
  ELSE IF value.array_value # None
    THEN LET items == IF value.array_value[1].values = None THEN <<>>
                      ELSE value.array_value[1].values[1]
             values == [i \in 1..Len(items) |->
                          Value_from_api_unsupported_is_null(items[i])]
         IN Value_array(values)
  ELSE IF value.key_value # None THEN Value_key(Key_from_api(value.key_value[1]))
  ELSE Value_null

\* From<google_datastore1::api::Value>
RECURSIVE Value_from_api(_)
Value_from_api(value) ==
  IF value.integer_value # None THEN Value_integer(value.integer_value[1])
  ELSE IF value.boolean_value # None THEN Value_boolean(value.boolean_value[1])
  ELSE IF value.blob_value # None THEN Value_blob(value.blob_value[1])
  ELSE IF value.string_value # None THEN Value_unicode_string(value.string_value[1])
  ELSE IF value.double_value # None THEN Value_floating_point(value.double_value[1])
  ELSE IF value.array_value # None
    THEN LET items == IF value.array_value[1].values = None THEN <<>>
                      ELSE value.array_value[1].values[1]
             values == [i \in 1..Len(items) |-> Value_from_api(items[i])]
         IN IF \E i \in 1..Len(items) : values[i] = Panic THEN Panic
            ELSE Value_array(values)
  ELSE IF value.key_value # None
    THEN LET key == Key_from_api(value.key_value[1])
         IN IF key = Key_panic THEN Panic ELSE Value_key(key)
  ELSE IF \/ value.entity_value # None
          \/ value.geo_point_value # None
          \/ value.timestamp_value # None
    THEN Panic
  ELSE Value_null

\* a key with an ancestor chain
SomeKey == with_parent(with_id(Key_new("B"), 1), with_name(Key_new("A"), "n"))

\* the values given to the setters
Values ==
  {Value_null, Value_integer(0), Value_integer(7), Value_array(<<>>),
   Value_array(<<Value_integer(7)>>),
   Value_array(<<Value_integer(0), Value_integer(7)>>)}

\* the values converted to the wire form and back
AllValues ==
  {Value_null, Value_integer(0), Value_integer(7), Value_boolean(TRUE),
   Value_blob(<<1, 2>>), Value_unicode_string(""), Value_unicode_string("s"),
   Value_floating_point(1), Value_key(SomeKey), Value_array(<<>>),
   Value_array(<<Value_integer(7)>>),
   Value_array(<<Value_null, Value_unicode_string("s")>>),
   Value_array(<<Value_array(<<>>),
                 Value_array(<<Value_integer(0),
                               Value_array(<<Value_key(SomeKey)>>)>>)>>)}

Names == {"a", "b"}
Meanings == {None, Some(15)}

\* Value::is_null
is_null(value) == value[1] = "Null"

\* Entity::set: properties.insert(name, PropertyValue { .. })
set(props, name, value, indexed, meaning) ==
  [n \in DOMAIN props \cup {name} |->
     IF n = name THEN [value |-> value, indexed |-> indexed, meaning |-> meaning]
     ELSE props[n]]

set_unindexed(props, name, value) == set(props, name, value, FALSE, None)

set_indexed(props, name, value) == set(props, name, value, TRUE, None)

\* set_advanced that stores an empty array as it is
effective_value_as_given(value) == value

\* set_advanced, lines 667-676
effective_value(value) ==
  IF value[1] = "Array" /\ value[2] = <<>> THEN Value_null ELSE value

set_advanced(props, name, value, index_values, index_nulls, meaning) ==
  LET effective == effective_value(value)
      indexed == IF is_null(effective) THEN index_nulls ELSE index_values
  IN set(props, name, effective, indexed,
         IF is_null(effective) THEN None ELSE meaning)

\* Into<google_datastore1::api::Entity>: the wire value of one property
PropertyValue_into_api(pv) ==
  LET value == Value_into_api(pv.value) IN
  IF value.array_value # None
    THEN IF value.array_value[1].values # None
           THEN LET items == value.array_value[1].values[1] IN
                [value EXCEPT !.array_value =
                   Some([values |-> Some(
                     [i \in 1..Len(items) |->
                        [items[i] EXCEPT !.exclude_from_indexes = Some(~pv.indexed),
                                         !.meaning = pv.meaning]])])]
           ELSE value
    ELSE [value EXCEPT !.exclude_from_indexes = Some(~pv.indexed),
                     !.meaning = pv.meaning]

\* Into<google_datastore1::api::Entity>
Entity_into_api(key, props) ==
  [key |-> Some(Key_to_api(key)),
   properties |-> Some([n \in DOMAIN props |-> PropertyValue_into_api(props[n])])]

\* From<google_datastore1::api::Entity>: the entity's key and properties, or
\* a panic
Entity_from_api(value) ==
  LET props == IF value.properties = None THEN <<>> ELSE value.properties[1]
      key == IF value.key = None THEN Key_panic ELSE Key_from_api(value.key[1])
  IN IF \/ key = Key_panic
        \/ \E n \in DOMAIN props : Value_from_api(props[n]) = Panic
       THEN [panic |-> TRUE, key |-> key, properties |-> <<>>]
       ELSE [panic |-> FALSE, key |-> key,
             properties |->
               [n \in DOMAIN props |->
                  [value |-> Value_from_api(props[n]),
                   indexed |-> ~(IF props[n].exclude_from_indexes = None THEN FALSE
                                 ELSE props[n].exclude_from_indexes[1]),
                   meaning |-> props[n].meaning]]]

\* the keys of the entities
EntityKeys == {Key_new("A"), SomeKey}

\* the property values the transport sends
ApiValues ==
  {[value EXCEPT !.exclude_from_indexes = exclude, !.meaning = meaning] :
     value \in {Value_into_api(Value_null), Value_into_api(Value_integer(7)),
              Value_into_api(Value_array(<<Value_integer(7)>>)),
              ApiValue_default,
              [ApiValue_default EXCEPT !.entity_value = Some("entity")]},
     exclude \in {None, Some(TRUE), Some(FALSE)}, meaning \in Meanings}

\* the entities the transport sends
ApiEntities ==
  {[key |-> key, properties |-> properties] :
     key \in {None} \cup {Some(Key_to_api(k)) : k \in EntityKeys},
     properties \in {None} \cup
       {Some(props) : props \in UNION {[names -> ApiValues] : names \in SUBSET Names}}}

InitEntity ==
  /\ transport = "unreliable"
  /\ InitRun({})
  /\ store_val = "none" /\ store_ver = 0 /\ read_ver = <<>>
  /\ NoShellCall
  /\ entity = <<>>
  /\ set_call = [op |-> "none", count |-> 0]
  /\ entity_key \in EntityKeys
  /\ pure = NoPure

Set ==
  /\ set_call.count < MaxSets
  /\ \E name \in Names, value \in Values, indexed \in BOOLEAN,
        meaning \in Meanings :
       /\ entity' = set(entity, name, value, indexed, meaning)
       /\ set_call' = [op |-> "set", count |-> set_call.count + 1, name |-> name,
                       value |-> value, indexed |-> indexed, meaning |-> meaning]
  /\ UNCHANGED <<entity_key, runVars, shellVars, pureVars>>

SetUnindexed ==
  /\ set_call.count < MaxSets
  /\ \E name \in Names, value \in Values :
       /\ entity' = set_unindexed(entity, name, value)
       /\ set_call' = [op |-> "set_unindexed", count |-> set_call.count + 1,
                       name |-> name, value |-> value]
  /\ UNCHANGED <<entity_key, runVars, shellVars, pureVars>>

SetIndexed ==
  /\ set_call.count < MaxSets
  /\ \E name \in Names, value \in Values :
       /\ entity' = set_indexed(entity, name, value)
       /\ set_call' = [op |-> "set_indexed", count |-> set_call.count + 1,
                       name |-> name, value |-> value]
  /\ UNCHANGED <<entity_key, runVars, shellVars, pureVars>>

SetAdvanced ==
  /\ set_call.count < MaxSets
  /\ \E name \in Names, value \in Values, index_values \in BOOLEAN,
        index_nulls \in BOOLEAN, meaning \in Meanings :
       /\ entity' = set_advanced(entity, name, value, index_values,
                                 index_nulls, meaning)
       /\ set_call' = [op |-> "set_advanced", count |-> set_call.count + 1,
                       name |-> name, value |-> value,
                       index_values |-> index_values,
                       index_nulls |-> index_nulls, meaning |-> meaning]
  /\ UNCHANGED <<entity_key, runVars, shellVars, pureVars>>

\* the entity is the conversion of one the transport sent
FromApi ==
  /\ set_call.count = 0
  /\ \E value \in ApiEntities :
       LET got == Entity_from_api(value) IN
       /\ entity' = got.properties
       /\ entity_key' = IF got.panic THEN entity_key ELSE got.key
       /\ set_call' = [op |-> "from_api", count |-> 1, panic |-> got.panic]
  /\ UNCHANGED <<runVars, shellVars, pureVars>>

\* the entity is converted to the wire form and back
RoundTrip ==
  /\ set_call.count < MaxSets
  /\ LET got == Entity_from_api(Entity_into_api(entity_key, entity)) IN
     /\ entity' = got.properties
     /\ entity_key' = got.key
     /\ set_call' = [op |-> "round_trip", count |-> set_call.count + 1,
                     panic |-> got.panic]
  /\ UNCHANGED <<runVars, shellVars, pureVars>>

NextEntity ==
  Set \/ SetUnindexed \/ SetIndexed \/ SetAdvanced \/ FromApi \/ RoundTrip

SpecEntity == InitEntity /\ [][NextEntity]_vars

\* ------------------------------------------------- conversions and builders
\* the wire values the transport sends
WireValues ==
  {Value_into_api(value) : value \in AllValues}
    \cup {ApiValue_default,
          [ApiValue_default EXCEPT !.entity_value = Some("entity")],
          [ApiValue_default EXCEPT !.geo_point_value = Some("geo")],
          [ApiValue_default EXCEPT !.timestamp_value = Some("time")],
          [ApiValue_default EXCEPT !.array_value =
             Some([values |-> Some(<<Value_into_api(Value_integer(7)),
                                     [ApiValue_default EXCEPT
                                        !.entity_value = Some("entity")]>>)])],
          [ApiValue_default EXCEPT !.array_value = Some([values |-> None])]}

InitPure ==
  /\ transport = "unreliable"
  /\ InitRun({})
  /\ store_val = "none" /\ store_ver = 0 /\ read_ver = <<>>
  /\ NoShellCall /\ NoSetCall
  /\ pure = NoPure

\* a key is converted to the wire form and back
KeyRoundTrip ==
  /\ pure = NoPure
  /\ \E key \in Keys :
       pure' = [fn |-> "Key", key |-> key, api |-> Key_to_api(key),
                back |-> Key_from_api(Key_to_api(key))]
  /\ UNCHANGED <<runVars, shellVars, entityVars>>

\* a value is converted to the wire form and back
ValueRoundTrip ==
  /\ pure = NoPure
  /\ \E value \in AllValues :
       pure' = [fn |-> "Value", value |-> value, api |-> Value_into_api(value),
                back |-> Value_from_api(Value_into_api(value))]
  /\ UNCHANGED <<runVars, shellVars, entityVars>>

\* a wire value is converted
ValueFromApi ==
  /\ pure = NoPure
  /\ \E api \in WireValues :
       pure' = [fn |-> "Value::from", api |-> api, value |-> Value_from_api(api)]
  /\ UNCHANGED <<runVars, shellVars, entityVars>>

\* a Filter is its variant's name followed by the variant's fields
Filter_Composite(op, filters) == <<"Composite", op, filters>>
Filter_Property(name, op, value) == <<"Property", name, op, value>>

\* Filter::and that wraps a single filter too
Filter_and_wraps_single(filters) ==
  IF filters = <<>> THEN None
  ELSE Some(Filter_Composite("And", filters))

\* Filter::and
Filter_and(filters) ==
  IF filters = <<>> THEN None
  ELSE IF Len(filters) = 1 THEN Some(filters[1])
  ELSE Some(Filter_Composite("And", filters))

\* the filters given to Filter::and
Filters ==
  {Filter_Property("a", "Equal", Value_integer(7)),
   Filter_Property("b", "GreaterThan", Value_unicode_string("s")),
   Filter_Composite("And", <<Filter_Property("a", "Equal", Value_null),
                             Filter_Property("b", "LessThan", Value_integer(0))>>)}

\* the sequences over a set of at most n elements
SeqsUpTo(S, n) == UNION {[1..k -> S] : k \in 0..n}

FilterAnd ==
  /\ pure = NoPure
  /\ \E filters \in SeqsUpTo(Filters, MaxFilters) :
       pure' = [fn |-> "Filter::and", filters |-> filters, ret |-> Filter_and(filters)]
  /\ UNCHANGED <<runVars, shellVars, entityVars>>

\* a Mutation is its variant's name and the entity or key it holds; an entity
\* is its key and its properties
\* Into<google_datastore1::api::Mutation>
Mutation_into_api(mutation) ==
  LET e == IF mutation[1] = "Delete" THEN None
                ELSE Some(Entity_into_api(mutation[2].key, mutation[2].properties))
  IN [insert |-> IF mutation[1] = "Insert" THEN e ELSE None,
      delete |-> IF mutation[1] = "Delete" THEN Some(Key_to_api(mutation[2]))
                 ELSE None,
      update |-> IF mutation[1] = "Update" THEN e ELSE None,
      upsert |-> IF mutation[1] = "Upsert" THEN e ELSE None]

\* MutationBatch::new: the batch is its mutations
MutationBatch_new == <<>>

\* MutationBatch::add that puts the mutation in front
MutationBatch_add_in_front(mutations, mutation) ==
  <<Mutation_into_api(mutation)>> \o mutations

\* MutationBatch::add
MutationBatch_add(mutations, mutation) ==
  Append(mutations, Mutation_into_api(mutation))

\* MutationBatch::add_all
MutationBatch_add_all(mutations, new_mutations) ==
  mutations \o [i \in 1..Len(new_mutations) |-> Mutation_into_api(new_mutations[i])]

\* MutationBatch::insert, update, upsert and delete
MutationBatch_one(mutations, variant, e) ==
  MutationBatch_add(mutations, <<variant, e>>)

\* MutationBatch::insert_all, update_all, upsert_all and delete_all
MutationBatch_all(mutations, variant, entities) ==
  MutationBatch_add_all(mutations,
                        [i \in 1..Len(entities) |-> <<variant, entities[i]>>])

\* From<google_datastore1::api::MutationResult>
MutationResult_from(value) ==
  [key |-> IF value.key = None THEN None ELSE Some(Key_from_api(value.key[1])),
   version |-> IF value.version = None THEN 0 ELSE value.version[1]]

\* From<google_datastore1::api::CommitResponse>
MutationResponse_from(value) ==
  LET results == IF value.mutation_results = None THEN <<>>
                 ELSE value.mutation_results[1]
  IN [mutation_results |->
        [i \in 1..Len(results) |-> MutationResult_from(results[i])],
      index_updates |-> IF value.index_updates = None THEN 0
                        ELSE value.index_updates[1]]

\* MutationResponse::default()
MutationResponse_default == [mutation_results |-> <<>>, index_updates |-> 0]

\* DatastoreShell::commit, with the batch and the transport's response
shell_commit_batch(sh, mutations, resp, response) ==
  LET r == shell_commit(sh, mutations = <<>>, resp) IN
  [result |-> IF r.result.tag = "Err" THEN r.result
              ELSE IF r.request = None THEN Ok(MutationResponse_default)
              ELSE Ok(MutationResponse_from(response)),
   request |-> IF r.request = None THEN None
               ELSE Some([call |-> r.request[1].call,
                          project_id |-> r.request[1].project_id,
                          database_id |-> r.request[1].database_id,
                          mode |-> r.request[1].mode,
                          mutations |-> Some(mutations),
                          transaction |-> r.request[1].transaction])]

\* the mutations added to a batch: about one entity and two keys
Mutations ==
  {<<variant, [key |-> SomeKey,
               properties |-> set(<<>>, "a", Value_integer(7), TRUE, None)]>> :
     variant \in {"Insert", "Update", "Upsert"}}
    \cup {<<"Delete", key>> : key \in {Key_new("A"), with_id(Key_new("B"), 1)}}

\* the responses of the transport to a commit of n mutations: one result per
\* mutation, in the order of the request's mutations
CommitResponses(n) ==
  {[mutation_results |-> results, index_updates |-> updates] :
     results \in {None} \cup
       {Some(rs) : rs \in
          [1..n -> {[key |-> None, version |-> Some(3)],
                    [key |-> Some(Key_to_api(with_id(Key_new("A"), 1))),
                     version |-> None]}]},
     updates \in {None, Some(2)}}

BatchNew ==
  /\ pure = NoPure
  /\ pure' = [fn |-> "MutationBatch", added |-> <<>>, mutations |-> MutationBatch_new]
  /\ UNCHANGED <<runVars, shellVars, entityVars>>

BatchAdd ==
  /\ pure.fn = "MutationBatch"
  /\ Len(pure.added) < MaxMutations
  /\ \E mutation \in Mutations :
       pure' = [pure EXCEPT !.added = Append(@, mutation),
                            !.mutations = MutationBatch_add(@, mutation)]
  /\ UNCHANGED <<runVars, shellVars, entityVars>>

BatchAddAll ==
  /\ pure.fn = "MutationBatch"
  /\ \E new_mutations \in SeqsUpTo(Mutations, MaxMutations - Len(pure.added)) :
       pure' = [pure EXCEPT !.added = @ \o new_mutations,
                            !.mutations = MutationBatch_add_all(@, new_mutations)]
  /\ UNCHANGED <<runVars, shellVars, entityVars>>

\* insert, update, upsert or delete
BatchOne ==
  /\ pure.fn = "MutationBatch"
  /\ Len(pure.added) < MaxMutations
  /\ \E mutation \in Mutations :
       pure' = [pure EXCEPT !.added = Append(@, mutation),
                            !.mutations = MutationBatch_one(@, mutation[1],
                                                            mutation[2])]
  /\ UNCHANGED <<runVars, shellVars, entityVars>>

\* insert_all, update_all, upsert_all or delete_all
BatchAll ==
  /\ pure.fn = "MutationBatch"
  /\ \E variant \in {"Insert", "Update", "Upsert", "Delete"} :
       \E entities \in SeqsUpTo({mutation[2] : mutation \in
                                   {m \in Mutations : m[1] = variant}},
                                MaxMutations - Len(pure.added)) :
         pure' = [pure EXCEPT
                    !.added = @ \o [i \in 1..Len(entities) |-> <<variant, entities[i]>>],
                    !.mutations = MutationBatch_all(@, variant, entities)]
  /\ UNCHANGED <<runVars, shellVars, entityVars>>

\* the batch is committed
BatchCommit ==
  /\ pure.fn = "MutationBatch"
  /\ \E sh \in {BaseShell, DatastoreShell(Some(<<0, 1>>))}, resp \in {"Ok", "UNAVAILABLE"} :
       \E response \in CommitResponses(Len(pure.mutations)) :
         LET r == shell_commit_batch(sh, pure.mutations, resp, response) IN
         pure' = [fn |-> "commit", added |-> pure.added,
                  mutations |-> pure.mutations, resp |-> resp,
                  response |-> response, request |-> r.request,
                  ret |-> r.result]
  /\ UNCHANGED <<runVars, shellVars, entityVars>>

\* consume_properties_from that drops the entity's own properties
consume_properties_from_replacing(e, other) ==
  [key |-> e.key, properties |-> other.properties]

\* Entity::consume_properties_from: the properties of the other entity are
\* merged into the entity's own, the key stays
consume_properties_from(e, other) ==
  [key |-> e.key,
   properties |->
     [n \in DOMAIN e.properties \cup DOMAIN other.properties |->
        IF n \in DOMAIN other.properties THEN other.properties[n]
        ELSE e.properties[n]]]

\* ModeledUpdate::update_entity: the entity afterwards and what is returned;
\* to_ds_entity is what the model's to_ds_entity() returned
update_entity(e, to_ds_entity) ==
  IF to_ds_entity.tag = "Err"
    THEN [entity |-> e, ret |-> to_ds_entity]
    ELSE LET merged == consume_properties_from(e, to_ds_entity.val)
         IN [entity |-> merged, ret |-> Ok(merged)]

\* ModeledUpdate::update_into_entity
update_into_entity(e, to_ds_entity) ==
  LET updated == update_entity(e, to_ds_entity) IN
  IF updated.ret.tag = "Err" THEN updated
  ELSE [entity |-> updated.entity, ret |-> Ok(updated.entity)]

\* the entities with properties of the given names
EntitiesOver(names) ==
  {[key |-> key, properties |-> properties] :
     key \in EntityKeys,
     properties \in UNION {[ns -> {[value |-> Value_integer(7), indexed |-> TRUE,
                                    meaning |-> None],
                                   [value |-> Value_unicode_string("s"),
                                    indexed |-> FALSE, meaning |-> Some(15)]}] :
                             ns \in SUBSET names}}

UpdateEntity ==
  /\ pure = NoPure
  /\ \E e \in EntitiesOver({"a", "b", "c"}),
        to_ds_entity \in {Ok(m) : m \in EntitiesOver({"a", "b"})}
                           \cup {Err(EntailError("model", None))} :
       LET updated == update_entity(e, to_ds_entity) IN
       pure' = [fn |-> "update_entity", original |-> e, model |-> to_ds_entity,
                entity |-> updated.entity, ret |-> updated.ret]
  /\ UNCHANGED <<runVars, shellVars, entityVars>>

UpdateIntoEntity ==
  /\ pure = NoPure
  /\ \E e \in EntitiesOver({"a", "b", "c"}),
        to_ds_entity \in {Ok(m) : m \in EntitiesOver({"a", "b"})}
                           \cup {Err(EntailError("model", None))} :
       LET updated == update_into_entity(e, to_ds_entity) IN
       pure' = [fn |-> "update_into_entity", original |-> e, model |-> to_ds_entity,
                entity |-> updated.entity, ret |-> updated.ret]
  /\ UNCHANGED <<runVars, shellVars, entityVars>>

NextPure ==
  \/ KeyRoundTrip \/ ValueRoundTrip \/ ValueFromApi \/ FilterAnd
  \/ BatchNew \/ BatchAdd \/ BatchAddAll \/ BatchOne \/ BatchAll \/ BatchCommit
  \/ UpdateEntity \/ UpdateIntoEntity

SpecPure == InitPure /\ [][NextPure]_vars

\* ------------------------------------------------------ claims, under Spec
\* the statuses of the retry classification table, as the specification names them
RetryStatuses == {"ABORTED", "DEADLINE_EXCEEDED", "UNAVAILABLE"}
HasStatus(err, S) == err.ds_error # None /\ err.ds_error[1].status \in S

\* the closure of this attempt failed with an error of one of the statuses S
ClosureFailed(p, S) == result[p].tag = "Err" /\ HasStatus(result[p].err, S)

\* the closure failed with no transport error, or one whose status is not
\* ABORTED, DEADLINE_EXCEEDED, UNAVAILABLE or INTERNAL
ClosureFailedNever(p) ==
  /\ result[p].tag = "Err"
  /\ ~HasStatus(result[p].err, RetryStatuses \cup {"INTERNAL"})

\* the engine's automatic rollback of this attempt was issued and failed
AutoRollbackFailed(p) == auto_rb[p] \in Statuses

\* C1 as stated: after the closure failed with ABORTED, DEADLINE_EXCEEDED or
\* UNAVAILABLE while attempts remain, run() does not return
C1_Original ==
  \A p \in Runs :
    ~(pc[p] = "done" /\ ClosureFailed(p, RetryStatuses) /\ retries_left[p] > 0)

\* C1 amended: after the closure failed with ABORTED, DEADLINE_EXCEEDED or
\* UNAVAILABLE while attempts remain, run() returns only if the automatic
\* rollback fails (with "Autorollback error"); otherwise it classifies,
\* sleeps, keeps the budget and calls begin_transaction again, and the closure
\* is invoked again if that begin_transaction succeeds
C1_RetryableIsRetried ==
  [][\A p \in Runs :
       (ClosureFailed(p, RetryStatuses) /\ retries_left[p] > 0) =>
         /\ pc[p] = "returned" =>
              \/ pc'[p] \in {"returned", "classify"}
              \/ /\ pc'[p] = "done" /\ AutoRollbackFailed(p)'
                 /\ ret'[p].tag = "Err"
                 /\ ret'[p].err.message = "Autorollback error"
         /\ pc[p] = "classify" => pc'[p] \in {"classify", "sleep"}
         /\ pc[p] = "sleep" =>
              /\ pc'[p] \in {"sleep", "loop"}
              /\ retries_left'[p] = retries_left[p]
         /\ pc[p] = "loop" =>
              \/ pc'[p] = "loop"
              \/ /\ begins'[p] = begins[p] + 1
                 /\ \/ pc'[p] = "body" /\ calls'[p] = calls[p] + 1
                    \/ /\ pc'[p] = "done" /\ ret'[p].tag = "Err"
                       /\ ret'[p].err.message = "Begin transaction error"]_vars

\* C1 witness: the closure runs a second time after an ABORTED failure
C1_Witness ==
  \E p \in Runs :
    /\ pc[p] = "body" /\ calls[p] = 2
    /\ last_error[p] # None /\ last_error[p][1].status = "ABORTED"

\* C2 as stated: once the closure failed with a never-retried error the
\* engine neither sleeps nor begins nor invokes again, and run() returns
\* that same error
C2_Original ==
  \A p \in Runs :
    ClosureFailedNever(p) =>
      /\ pc[p] \in {"returned", "classify", "done"}
      /\ pc[p] = "done" => ret[p] = result[p]

\* C2 amended: once the closure failed with a never-retried error the engine
\* neither sleeps nor begins nor invokes again, and run() returns that same
\* error, except that its message is replaced by "Autorollback error" when
\* the automatic rollback of the still active transaction fails
C2_NeverIsNotRetried ==
  \A p \in Runs :
    ClosureFailedNever(p) =>
      /\ pc[p] \in {"returned", "classify", "done"}
      /\ pc[p] = "done" =>
           ret[p] = IF AutoRollbackFailed(p)
                      THEN Err([result[p].err EXCEPT
                                  !.message = "Autorollback error"])
                      ELSE result[p]

\* C2 witness: run() returned the closure's RESOURCE_EXHAUSTED error while
\* attempts remained
C2_Witness ==
  \E p \in Runs :
    /\ pc[p] = "done" /\ ClosureFailed(p, {"RESOURCE_EXHAUSTED"})
    /\ ret[p] = result[p] /\ retries_left[p] > 0

C4_AbandonedIsRolledBack ==
  \A p \in Runs :
    (returned_active[p] /\ pc[p] \in {"classify", "sleep", "loop", "done"}) =>
      /\ auto_rb[p] # "none"
      /\ "rollback" \in sent[p]

\* C4 witness: the closure failed with the shell active and the engine's
\* rollback went through
C4_Witness ==
  \E p \in Runs :
    returned_active[p] /\ pc[p] = "classify" /\ auto_rb[p] = "Ok"

\* C5 as stated: when run() loops or returns, a commit or rollback request
\* carrying the attempt's token has been issued
C5_EveryTokenIsClosed ==
  \A p \in Runs :
    (pc[p] \in {"loop", "done"} /\ this_txn[p].ds.transaction # None) =>
      sent[p] # {}

\* C6 as stated: when the automatic rollback fails after a closure failure,
\* run() returns an error carrying the rollback's transport error
C6_Original ==
  \A p \in Runs :
    (pc[p] = "done" /\ result[p].tag = "Err" /\ AutoRollbackFailed(p)) =>
      /\ ret[p].tag = "Err"
      /\ ret[p].err.ds_error = Some(TransportError("rollback", auto_rb[p]))

\* C6 amended: when the automatic rollback fails after a closure failure,
\* run() returns an error with the message "Autorollback error" that carries
\* the closure's own transport error (or none), not the rollback's
C6_AutorollbackError ==
  \A p \in Runs :
    (pc[p] = "done" /\ result[p].tag = "Err" /\ AutoRollbackFailed(p)) =>
      ret[p] = Err([result[p].err EXCEPT !.message = "Autorollback error"])

\* C6 witness: the rollback failed after the closure failed with a lookup error
C6_Witness ==
  \E p \in Runs :
    /\ pc[p] = "done" /\ AutoRollbackFailed(p)
    /\ result[p].tag = "Err" /\ result[p].err.message = "Lookup error"

\* C7 as stated: an error with a retryable status reaches the caller only
\* when no attempt remains (or as the precedence of a failed automatic
\* rollback); begin_transaction failures included
C7_AllFailuresClassified ==
  \A p \in Runs :
    (pc[p] = "done" /\ ret[p].tag = "Err"
       /\ HasStatus(ret[p].err, RetryStatuses \cup {"INTERNAL"})) =>
      \/ retries_left[p] = 0
      \/ ret[p].err.message = "Autorollback error"

\* C9: the budget never grows; an INTERNAL failure with attempts remaining
\* sets it to one, and at most one attempt follows the first INTERNAL failure
C9_OnceClampsBudget ==
  /\ [](\A p \in Runs :
          /\ begins[p] + retries_left[p] <= cfg[p].retry_count
          /\ first_internal[p] > 0 =>
               /\ calls[p] <= first_internal[p] + 1
               /\ begins[p] <= first_internal[p] + 1)
  /\ [][\A p \in Runs :
          (pc[p] = "classify" /\ pc'[p] # "classify"
             /\ ClosureFailed(p, {"INTERNAL"}) /\ retries_left[p] > 0) =>
            retries_left'[p] = 1]_vars

\* C9 witness: INTERNAL with two or more attempts left, one more invocation
C9_Witness ==
  \E p \in Runs :
    /\ pc[p] = "done" /\ first_internal[p] > 0
    /\ first_internal[p] + 2 <= cfg[p].retry_count
    /\ calls[p] = first_internal[p] + 1

AllDone == \A p \in ConcRuns : pc[p] = "done"

\* the runs that observed a conflict and re-attempted
Reattempted == {p \in ConcRuns : calls[p] >= 2}

\* C8 as stated: both runs return Ok, exactly one of them after a conflict
\* and a re-attempt, each closure ran between once and retry_count times and
\* the stored value is the value of one of the two closures
C8_Original ==
  AllDone =>
    /\ Cardinality(Reattempted) = 1
    /\ \A p \in ConcRuns :
         /\ ret[p].tag = "Ok"
         /\ 1 <= calls[p] /\ calls[p] <= cfg[p].retry_count
    /\ store_val \in {WriterValue(p) : p \in ConcRuns}

\* C8 amended: both runs eventually return; when both have a retry_count of
\* two or more, both return Ok, at most one of them after a conflict and a
\* re-attempt, each closure ran between once and retry_count times and the
\* stored value is the value of one of the two closures
C8_ConflictIsRetried ==
  /\ <>AllDone
  /\ [](AllDone /\ (\A p \in ConcRuns : cfg[p].retry_count >= 2) =>
          /\ Cardinality(Reattempted) <= 1
          /\ \A p \in ConcRuns :
               /\ ret[p].tag = "Ok"
               /\ 1 <= calls[p] /\ calls[p] <= cfg[p].retry_count
          /\ store_val \in {"wibz", "vrob"})

\* C8 witness: both runs returned Ok and one of them had lost a conflict
C8_Witness ==
  /\ AllDone
  /\ \A p \in ConcRuns : ret[p].tag = "Ok"
  /\ \E p \in ConcRuns : calls[p] = 2 /\ last_error[p] # None

\* ------------------------------------------------------------------ C11
\* C11: the first begin_transaction of a run() carries no previous
\* transaction, and every later one carries exactly the token the transport
\* gave to the immediately preceding attempt
C11_BeginCarriesPrevious ==
  [][\A p \in Runs :
       begins'[p] = begins[p] + 1 =>
         hint'[p] = IF begins[p] = 0 THEN None ELSE this_txn[p].ds.transaction]_vars

\* C11 witness: the third attempt was begun with the second attempt's token
C11_Witness ==
  \E p \in Runs : begins[p] = 3 /\ hint[p] = Some(<<p, 2>>)

\* ------------------------------------------------------------------ C12
\* C12: begin_transaction for the next attempt is issued only after a commit
\* or a rollback of the preceding attempt's transaction has succeeded, so
\* that one run() never holds two transactions open at the transport
C12_BeginAfterResolved ==
  [][\A p \in Runs : begins'[p] = begins[p] + 1 => unresolved[p] = {}]_vars

\* ------------------------------------------------------------------ C13
\* C13: a TransactionShell built from a shell with a token starts active;
\* a commit or a rollback through it clears active when it succeeds and
\* leaves active as it was when it fails; nothing else changes active, so
\* it is never true again
C13_ActiveLifecycle ==
  [][\A p \in Runs :
       /\ (begins'[p] = begins[p] + 1 /\ pc'[p] = "body") =>
            (this_txn'[p].ds.transaction # None /\ this_txn'[p].active)
       /\ ts_op'[p] # None =>
            this_txn'[p].active = (this_txn[p].active /\ ts_op'[p][2] # "Ok")
       /\ (ts_op'[p] = None /\ begins'[p] = begins[p]) =>
            this_txn'[p].active = this_txn[p].active]_vars

\* C13 witness: in a later attempt a rollback through the shell failed and
\* left the shell active
C13_Witness ==
  \E p \in Runs :
    /\ ts_op[p] = <<"rollback", "Err">> /\ this_txn[p].active
    /\ begins[p] >= 2

\* ------------------------------------------- claims, under SpecShell
\* C14: when get_all returns Ok, every input key was asked for in a lookup
\* that did not defer it, the result holds exactly the entities the lookups
\* found, once each, keys that were missing add nothing, and the key set of
\* fetch_all's map is the set of input keys that exist
C14_GetAllReturnsFound ==
  (ga.pc = "done" /\ ga.ret.tag = "Ok") =>
    /\ ga.answered = Elems(ga.input)
    /\ Elems(ga.ret.val) = ga.found
    /\ Len(ga.ret.val) = Cardinality(ga.found)
    /\ sh_result.tag = "Ok" => DOMAIN sh_result.val = ga.found

\* C14 witness: more keys than one request holds, a key deferred and asked
\* for again, some keys found and some missing
C14_Witness ==
  /\ ga.pc = "done" /\ ga.ret.tag = "Ok" /\ sh_result.tag = "Ok"
  /\ Len(ga.input) > LookupLimit
  /\ ga.lookups > (Len(ga.input) + LookupLimit - 1) \div LookupLimit
  /\ ga.found # {} /\ ga.found # Elems(ga.input)

\* C15: every lookup and every query request asks for STRONG consistency
\* exactly when the shell has no token and carries the shell's token exactly
\* when it has one: never both, never neither
C15_ReadOptions ==
  \A req \in sh_requests :
    req.call \in {"lookup", "run_query"} =>
      /\ (req.read_options.read_consistency = Some("STRONG")) <=>
           (shell.transaction = None)
      /\ req.read_options.read_consistency \in {None, Some("STRONG")}
      /\ req.read_options.transaction = shell.transaction
      /\ (req.read_options.read_consistency = None) #
           (req.read_options.transaction = None)

\* C15 witness: a get_all inside a transaction sent two lookups
C15_Witness ==
  /\ sh_call.op = "fetch_all" /\ shell.transaction # None
  /\ Cardinality(sh_requests) >= 2

\* C16: a commit request is TRANSACTIONAL and carries the shell's token
\* exactly when the shell has one, else NON_TRANSACTIONAL without a token
C16_CommitMode ==
  \A req \in sh_requests :
    req.call = "commit" =>
      IF shell.transaction # None
        THEN req.mode = "TRANSACTIONAL" /\ req.transaction = shell.transaction
        ELSE req.mode = "NON_TRANSACTIONAL" /\ req.transaction = None

\* C16 witness: a commit was sent by a shell that holds a token
C16_Witness ==
  /\ sh_call.op = "commit" /\ shell.transaction # None
  /\ \E req \in sh_requests : req.call = "commit"

\* the operation that was called had nothing to do
NothingToDo ==
  \/ sh_call.op \in {"commit", "allocate_ids", "reserve_ids"} /\ sh_call.args[1]
  \/ sh_call.op = "fetch_all" /\ sh_call.args[1] = <<>>
  \/ sh_call.op = "rollback" /\ sh_call.args[1] = None /\ shell.transaction = None

\* C17: commit of an empty batch, allocate_ids, reserve_ids and get_all
\* with no keys, and rollback with neither an explicit nor a shell token
\* succeed without a transport call
C17_NothingToDo ==
  NothingToDo =>
    /\ sh_requests = {}
    /\ sh_result.tag = "Ok"
    /\ sh_call.op = "fetch_all" => ga.ret.tag = "Ok" /\ ga.lookups = 0

\* C17 witness: an empty batch was committed inside a transaction
C17_Witness ==
  sh_call.op = "commit" /\ sh_call.args[1] /\ shell.transaction # None

\* C18: begin_transaction leaves the shell it was called on as it was, also
\* when it fails, and on success returns a shell with the token the
\* transport handed out and the same project and database
C18_BeginReturnsNewShell ==
  [][sh_call'.op = "begin_transaction" =>
       /\ shell' = shell
       /\ sh_result'.tag = "Ok" =>
            /\ sh_result'.val.project_id = shell.project_id
            /\ sh_result'.val.database_id = shell.database_id
            /\ sh_result'.val.transaction \in {Some(t) : t \in FreshTokens}
            /\ sh_result'.val.transaction # shell.transaction]_vars

\* C18 witness: a shell of the other project with a database and a token
\* began a transaction
C18_Witness ==
  /\ sh_call.op = "begin_transaction" /\ sh_result.tag = "Ok"
  /\ shell.project_id = "other-project" /\ shell.database_id # None
  /\ shell.transaction # None

\* the error both operations return when the lookup fails
LookupFailure(resp) ==
  Err([kind |-> "RequestFailure", message |-> "Lookup error",
       ds_error |-> Some(TransportError("lookup", resp))])

\* C19: for a key that is absent get_single returns Ok(None) and
\* fetch_single returns a RequiredEntityNotFound error; no other operation
\* returns that kind; a failure of the transport is returned by both as the
\* RequestFailure error that wraps it
C19_AbsentKey ==
  /\ sh_call.op = "get_single" =>
       /\ sh_call.resp = "Missing" => (sh_result.tag = "Ok" /\ sh_result.val = None)
       /\ sh_call.resp \in Statuses => sh_result = LookupFailure(sh_call.resp)
  /\ sh_call.op = "fetch_single" =>
       /\ sh_call.resp = "Missing" =>
            /\ sh_result.tag = "Err"
            /\ sh_result.err.kind = "RequiredEntityNotFound"
            /\ sh_result.err.ds_error = None
       /\ sh_call.resp \in Statuses => sh_result = LookupFailure(sh_call.resp)
  /\ (sh_call.op \notin {"none", "fetch_single", "fetch_all"}
        /\ sh_result.tag = "Err") =>
       sh_result.err.kind # "RequiredEntityNotFound"
  /\ ga.ret.tag = "Err" => ga.ret.err.kind # "RequiredEntityNotFound"

\* C19 witness: fetch_single was called for an absent key
C19_Witness ==
  sh_call.op = "fetch_single" /\ sh_call.resp = "Missing" /\ sh_result.tag = "Err"

\* ------------------------------------------- claims, under SpecEntity
\* C20: set_advanced stores Null when the given value is Null or an empty
\* array and the given value otherwise; the property is indexed as
\* index_nulls says when the stored value is Null and as index_values says
\* otherwise; its meaning is None when the stored value is Null and the
\* given meaning otherwise
C20_SetAdvanced ==
  set_call.op = "set_advanced" =>
    LET stored == entity[set_call.name]
        given == set_call.value
        null == stored.value = Value_null
    IN /\ stored.value = IF given = Value_null \/ given = Value_array(<<>>)
                           THEN Value_null ELSE given
       /\ stored.indexed = IF null THEN set_call.index_nulls
                           ELSE set_call.index_values
       /\ stored.meaning = IF null THEN None ELSE set_call.meaning

\* C20 witness: set_advanced(name, Array([]), true, false, Some(meaning))
\* replaced a property that an earlier call had set
C20_Witness ==
  /\ set_call.op = "set_advanced" /\ set_call.count = 2
  /\ set_call.value = Value_array(<<>>) /\ set_call.meaning # None
  /\ set_call.index_values /\ ~set_call.index_nulls
  /\ DOMAIN entity = {set_call.name}


\* C21: in every entity built by set, set_indexed, set_unindexed and
\* set_advanced or converted from the wire form, a property whose value is
\* Null has no meaning
C21_NullHasNoMeaning ==
  \A n \in DOMAIN entity :
    is_null(entity[n].value) => entity[n].meaning = None

\* C22: converting an entity to the wire form and back yields the same key
\* and, for every property, the same value, indexed flag and meaning
C22_EntityRoundTrip ==
  [][set_call'.op = "round_trip" =>
       /\ set_call'.panic = FALSE
       /\ entity_key' = entity_key
       /\ entity' = entity]_vars

\* the number of segments of a key's path
RECURSIVE Depth(_)
Depth(key) == IF key.parent = None THEN 1 ELSE 1 + Depth(key.parent[1])

\* the ancestor n links above a key (the key itself for n = 0)
RECURSIVE Ancestor(_, _)
Ancestor(key, n) == IF n = 0 THEN key ELSE Ancestor(key.parent[1], n - 1)

\* C23: a key converted to the wire form and back is the same key (kind,
\* variant and parent chain), and the wire path lists the segments root first
\* and leaf last
C23_KeyRoundTrip ==
  pure.fn = "Key" =>
    /\ pure.back = pure.key
    /\ pure.api.path # None
    /\ LET path == pure.api.path[1] IN
       /\ Len(path) = Depth(pure.key)
       /\ \A i \in 1..Len(path) :
            LET segment == Ancestor(pure.key, Len(path) - i) IN
            /\ path[i].kind = Some(segment.kind)
            /\ path[i].id = IF segment.variant[1] = "Id"
                              THEN Some(segment.variant[2]) ELSE None
            /\ path[i].name = IF segment.variant[1] = "Name"
                                THEN Some(segment.variant[2]) ELSE None

C23_Witness ==
  /\ pure.fn = "Key"
  /\ Depth(pure.key) = 3
  /\ pure.key.variant = KeyVariant_Incomplete
  /\ pure.key.parent[1].variant[1] = "Name"
  /\ pure.key.parent[1].parent[1].variant[1] = "Id"
  /\ pure.key.parent[1].kind # pure.key.kind
  /\ pure.back = pure.key

\* C24: a Value converted to the wire form and back is the same Value; a
\* wire value with no field set converts to Null; a wire value holding an
\* entity, a geo-point or a timestamp makes the conversion panic
C24_ValueRoundTrip ==
  /\ pure.fn = "Value" => pure.back = pure.value
  /\ pure.fn = "Value::from" =>
       /\ pure.api = ApiValue_default => pure.value = Value_null
       /\ ( \/ pure.api.entity_value # None
            \/ pure.api.geo_point_value # None
            \/ pure.api.timestamp_value # None ) => pure.value = Panic

C24_Witness ==
  /\ pure.fn = "Value"
  /\ pure.value[1] = "Array"
  /\ Len(pure.value[2]) = 2
  /\ pure.value[2][2][1] = "Array"
  /\ pure.value[2][2][2][2] = Value_array(<<Value_key(SomeKey)>>)
  /\ pure.api.array_value # None
  /\ pure.back = pure.value

\* C27: Filter::and returns no filter for an empty list, the element itself
\* for a one-element list, and otherwise a Composite AND of the list's
\* elements in the list's order
C27_FilterAnd ==
  pure.fn = "Filter::and" =>
    /\ Len(pure.filters) = 0 => pure.ret = None
    /\ Len(pure.filters) = 1 => pure.ret = <<pure.filters[1]>>
    /\ Len(pure.filters) > 1 =>
         /\ pure.ret # None
         /\ pure.ret[1][1] = "Composite"
         /\ pure.ret[1][2] = "And"
         /\ Len(pure.ret[1][3]) = Len(pure.filters)
         /\ \A i \in 1..Len(pure.filters) : pure.ret[1][3][i] = pure.filters[i]

C27_Witness ==
  /\ pure.fn = "Filter::and"
  /\ Len(pure.filters) = 1
  /\ pure.filters[1][1] = "Composite"
  /\ pure.ret = <<pure.filters[1]>>

\* C26: a batch holds its mutations in the order in which they were added;
\* the commit request lists them in that order, and the i-th mutation result
\* of the response is the transport's result for the i-th mutation
C26_BatchOrder ==
  pure.fn \in {"MutationBatch", "commit"} =>
    /\ Len(pure.mutations) = Len(pure.added)
    /\ \A i \in 1..Len(pure.added) :
         pure.mutations[i] = Mutation_into_api(pure.added[i])
    /\ (pure.fn = "commit" /\ pure.request # None) =>
         /\ pure.request[1].mutations = Some(pure.mutations)
         /\ (pure.ret.tag = "Ok" /\ pure.response.mutation_results # None) =>
              /\ Len(pure.ret.val.mutation_results) = Len(pure.added)
              /\ \A i \in 1..Len(pure.added) :
                   pure.ret.val.mutation_results[i] =
                     MutationResult_from(pure.response.mutation_results[1][i])

C26_Witness ==
  /\ pure.fn = "commit"
  /\ Len(pure.added) = 3
  /\ pure.added[1][1] = "Delete" /\ pure.added[2][1] = "Upsert"
  /\ pure.added[3][1] = "Insert"
  /\ pure.request # None
  /\ pure.ret.tag = "Ok"
  /\ Len(pure.ret.val.mutation_results) = 3
  /\ pure.ret.val.mutation_results[1].key # None
  /\ pure.ret.val.mutation_results[2].key = None

\* C25: update_entity and update_into_entity overwrite in the original entity
\* exactly the properties the typed model produces and leave every other
\* property and the entity's key unchanged
C25_ModeledUpdate ==
  (pure.fn \in {"update_entity", "update_into_entity"} /\ pure.model.tag = "Ok") =>
    LET produced == pure.model.val.properties IN
    /\ pure.ret = Ok(pure.entity)
    /\ pure.entity.key = pure.original.key
    /\ DOMAIN pure.entity.properties =
         DOMAIN pure.original.properties \cup DOMAIN produced
    /\ \A n \in DOMAIN produced : pure.entity.properties[n] = produced[n]
    /\ \A n \in DOMAIN pure.original.properties \ DOMAIN produced :
         pure.entity.properties[n] = pure.original.properties[n]

C25_Witness ==
  /\ pure.fn = "update_into_entity"
  /\ pure.model.tag = "Ok"
  /\ DOMAIN pure.original.properties = {"a", "c"}
  /\ DOMAIN pure.model.val.properties = {"a", "b"}
  /\ pure.model.val.properties["a"] # pure.original.properties["a"]
  /\ pure.model.val.key # pure.original.key
  /\ pure.entity.properties["c"] = pure.original.properties["c"]
  /\ pure.entity.properties["a"] = pure.model.val.properties["a"]

C29_Original ==
  \A p \in Runs :
    (pc[p] = "sleep" /\ ClosureFailed(p, {"ABORTED"})) =>
      val[p] = current_delay[p]

\* C29 amended: the wait sampled for an ABORTED retry is at least half of
\* current_delay (rounded down) and less than current_delay; it is
\* current_delay only when current_delay is zero
C29_NormalWindow ==
  \A p \in Runs :
    (pc[p] = "sleep" /\ ClosureFailed(p, {"ABORTED"})) =>
      IF current_delay[p] = 0
        THEN val[p] = 0
        ELSE /\ current_delay[p] \div 2 <= val[p]
             /\ val[p] < current_delay[p]

\* C29 witness: a wait below current_delay before an ABORTED retry
C29_Witness ==
  \E p \in Runs :
    /\ pc[p] = "sleep" /\ ClosureFailed(p, {"ABORTED"})
    /\ current_delay[p] = 4 /\ val[p] = 2

\* the waits the engine can sample in a state where it classifies
Sampled(p) == {v \in 0..(2 * current_delay[p] + 1) : ENABLED (Classify(p) /\ val'[p] = v)}

\* C30 as stated: the wait sampled for a DEADLINE_EXCEEDED or UNAVAILABLE
\* retry lies between half of current_delay and twice current_delay, and
\* every value of that window can be sampled
C30_Original ==
  \A p \in Runs :
    /\ (pc[p] = "sleep" /\ ClosureFailed(p, {"DEADLINE_EXCEEDED", "UNAVAILABLE"})) =>
         /\ current_delay[p] \div 2 <= val[p]
         /\ val[p] <= 2 * current_delay[p]
    /\ (pc[p] = "classify" /\ ClosureFailed(p, {"DEADLINE_EXCEEDED", "UNAVAILABLE"})) =>
         (current_delay[p] \div 2)..(2 * current_delay[p]) \subseteq Sampled(p)

\* C30 amended: the wait sampled for a DEADLINE_EXCEEDED or UNAVAILABLE
\* retry is at least current_delay and less than twice current_delay (zero
\* when current_delay is zero), and every such value can be sampled
C30_BackoffWindow ==
  \A p \in Runs :
    /\ (pc[p] = "sleep" /\ ClosureFailed(p, {"DEADLINE_EXCEEDED", "UNAVAILABLE"})) =>
         IF current_delay[p] = 0
           THEN val[p] = 0
           ELSE /\ current_delay[p] <= val[p]
                /\ val[p] < 2 * current_delay[p]
    /\ (pc[p] = "classify" /\ ClosureFailed(p, {"DEADLINE_EXCEEDED", "UNAVAILABLE"})) =>
         Sampled(p) = IF current_delay[p] = 0 THEN {0}
                      ELSE current_delay[p]..(2 * current_delay[p] - 1)

\* C30 witness: a wait within the window before a Backoff retry
C30_Witness ==
  \E p \in Runs :
    /\ pc[p] = "sleep" /\ ClosureFailed(p, {"UNAVAILABLE"})
    /\ current_delay[p] = 4 /\ val[p] = 7

\* ------------------------------------------- claims about run(), continued
\* a commit of this attempt that carried its token succeeded at the
\* transport: it is the only closing request sent and the shell is inactive
Committed(p) == ~this_txn[p].active /\ sent[p] = {"commit"}

\* C31: once a commit made through the TransactionShell has succeeded, the
\* engine begins no further transaction and does not invoke the closure again
C31_NoAttemptAfterCommit ==
  [][\A p \in Runs :
       Committed(p) => (begins'[p] = begins[p] /\ calls'[p] = calls[p])]_vars

\* C32: when the automatic rollback fails after a closure failure, run()
\* returns at once: the error is not classified, the budget and the delay
\* stay, and neither a sleep nor an attempt follows, whatever the status
C32_RollbackFailureReturns ==
  /\ [](\A p \in Runs :
          (result[p].tag = "Err" /\ AutoRollbackFailed(p)) =>
            /\ pc[p] = "done"
            /\ ret[p].tag = "Err")
  /\ [][\A p \in Runs :
          (pc[p] = "returned" /\ result[p].tag = "Err"
             /\ ts_op'[p] = <<"rollback", "Err">>) =>
            /\ pc'[p] = "done"
            /\ retryable'[p] = retryable[p]
            /\ retries_left'[p] = retries_left[p]
            /\ current_delay'[p] = current_delay[p]
            /\ begins'[p] = begins[p] /\ calls'[p] = calls[p]]_vars

\* C32 witness: run() returned after a failed rollback although the closure
\* failed with ABORTED and attempts remained
C32_Witness ==
  \E p \in Runs :
    /\ pc[p] = "done" /\ AutoRollbackFailed(p)
    /\ ClosureFailed(p, {"ABORTED"}) /\ retries_left[p] > 0
    /\ ret[p].tag = "Err"

\* C33: when the closure returns Ok, run() makes no further attempt; it
\* returns the closure's value if the transaction is no longer active or the
\* automatic rollback succeeds, and the rollback's error if that rollback fails
C33_OkIsFinal ==
  /\ [](\A p \in Runs :
          result[p].tag = "Ok" =>
            /\ pc[p] \in {"returned", "done"}
            /\ pc[p] = "done" =>
                 /\ returned_active[p] => auto_rb[p] # "none"
                 /\ ~returned_active[p] => auto_rb[p] = "none"
                 /\ IF AutoRollbackFailed(p)
                      THEN /\ ret[p].tag = "Err"
                           /\ ret[p].err.ds_error =
                                Some(TransportError("rollback", auto_rb[p]))
                      ELSE ret[p] = Ok(result[p].val))
  /\ [][\A p \in Runs :
          result[p].tag = "Ok" =>
            /\ pc'[p] = "done"
            /\ begins'[p] = begins[p] /\ calls'[p] = calls[p]
            /\ retries_left'[p] = retries_left[p]]_vars

\* C33 witness: the rollback failed after the closure returned Ok with
\* attempts remaining, and run() returned the rollback's error
C33_Witness ==
  \E p \in Runs :
    /\ pc[p] = "done" /\ result[p].tag = "Ok" /\ retries_left[p] > 0
    /\ auto_rb[p] = "UNAVAILABLE"
    /\ ret[p].tag = "Err"

\* C34: the engine sleeps exactly once after every closure failure with
\* status ABORTED, DEADLINE_EXCEEDED or UNAVAILABLE that it classifies, also
\* when no attempt is left; after an INTERNAL or a never-retried failure it
\* neither sleeps nor changes current_delay
C34_SleepOncePerRetry ==
  [][\A p \in Runs :
       /\ (pc[p] = "classify" /\ pc'[p] # "classify") =>
            IF ClosureFailed(p, RetryStatuses)
              THEN pc'[p] = "sleep"
              ELSE /\ pc'[p] \in {"loop", "done"}
                   /\ current_delay'[p] = current_delay[p]
       /\ (pc[p] = "sleep" /\ pc'[p] # "sleep") =>
            /\ pc'[p] = "loop"
            /\ ClosureFailed(p, RetryStatuses)
       /\ (pc[p] # "classify" /\ pc'[p] # pc[p]) => pc'[p] # "sleep"
       /\ (pc[p] = "loop" /\ pc'[p] = "done" /\ begins'[p] = begins[p]) =>
            ret'[p] = Err(EntailError("Retries exhausted", last_error[p]))]_vars

\* C34 witness: the engine sleeps after an ABORTED failure that used up the
\* last attempt of the budget
C34_Witness ==
  \E p \in Runs :
    /\ pc[p] = "sleep" /\ retries_left[p] = 0
    /\ cfg[p].retry_count >= 2
    /\ ClosureFailed(p, {"ABORTED"})

C36_LookupSize ==
  /\ sh_call.op = "fetch_all" =>
       \A request \in sh_requests :
         /\ request.call = "lookup"
         /\ Len(request.keys) >= 1
         /\ Len(request.keys) <= LookupLimit
  /\ ga.pc = "loop" =>
       LET filled == Refill(ga.native_keys, ga.rest) IN
       /\ Len(filled.native_keys) >= 1
       /\ Len(filled.native_keys) <= LookupLimit

\* C36 witness: more keys than the limit, three lookups, the last one for a
\* single deferred key
C36_Witness ==
  /\ sh_call.op = "fetch_all" /\ ga.pc = "done"
  /\ Len(ga.input) > LookupLimit + 1
  /\ ga.lookups = 3
  /\ \E request \in sh_requests : Len(request.keys) = 1
  /\ \E request \in sh_requests : Len(request.keys) = LookupLimit

\* ------------------------------------------------------------------ C37
\* C37: when every lookup response leaves at least one requested key not
\* deferred, get_all returns, and it does so after at most one lookup per
\* key; a lookup that fails ends get_all with that very lookup, with the
\* RequestFailure error that wraps the failure and none of the entities
\* found so far; as long as get_all has not returned, its next lookup is
\* sent whatever the number of lookups before it
C37_GetAllTerminates ==
  /\ (ga.pc = "loop") ~> (ga.pc = "done")
  /\ [](ga.pc = "loop" =>
          /\ ga.lookups < Len(ga.input)
          /\ ENABLED GetAllLookupProgress)
  /\ [](ga.ret.tag = "Err" =>
          /\ ga.pc = "done"
          /\ \E status \in Statuses : ga.ret = LookupFailure(status)
          /\ sh_result = ga.ret)
  /\ [][(ga.pc = "loop" /\ ga'.ret.tag = "Err") =>
          ga'.lookups = ga.lookups + 1]_vars

\* C37 witness: get_all returned after as many lookups as there were keys,
\* more than the requests the keys fill, each response deferring a key
C37_Witness ==
  /\ ga.pc = "done" /\ ga.ret.tag = "Ok"
  /\ Len(ga.input) > LookupLimit
  /\ ga.lookups = Len(ga.input)
  /\ ga.found # {}

\* ------------------------------------------------------------------ C38
\* C38: of two executions of run() that receive the same closure results and
\* transport responses, the second can follow every step of the first
\* whatever jitter either of them drew, and when both have returned they
\* have invoked the closure and begun a transaction the same number of
\* times, passed the same previous-transaction hint and returned the same
\* result
C38_JitterOnlySleeps ==
  /\ AllButVal(1) # AllButVal(2) => ENABLED Follow
  /\ (pc[1] = "done" /\ pc[2] = "done") =>
       /\ calls[1] = calls[2]
       /\ begins[1] = begins[2]
       /\ SameToken(hint[1]) = SameToken(hint[2])
       /\ ret[1] = ret[2]

\* C38 witness: both executions returned the same result after two sleeps,
\* and they drew different jitter for the sleep they are in
C38_Witness ==
  /\ pc[1] = "sleep" /\ pc[2] = "sleep"
  /\ val[1] # val[2]
  /\ calls[1] = 2 /\ calls[2] = 2

====
